---- MODULE Spec2Model ----
(***************************************************************************)
(* A model of cate.core.workflow: the node/port object graph of a          *)
(* Workflow and its Steps, the operations that mutate it, the invocation   *)
(* of the steps, the sorting of the steps, the JSON round trip, and the    *)
(* ValueCache.                                                             *)
(*                                                                         *)
(* Python strings that are taken apart or put together (node ids, port     *)
(* names, source texts, cache keys) are sequences of tokens; "." is a      *)
(* token of its own.  Python objects are named by strings.  A call that    *)
(* raises leaves the name of the exception in the field exc of the state   *)
(* it returns, together with whatever it had changed before raising.       *)
(***************************************************************************)
EXTENDS FiniteSets, Integers, Sequences, TLC

VARIABLES
    wf,         \* the object graph: ids, port namespaces, parents, Workflow._steps, Workflow._steps_dict, ports
    last,       \* the most recent call: its name, its arguments and the object graph before it
    calls,      \* number of mutating calls made so far
    run,        \* the state of Workflow.invoke: position and the steps invoked so far
    result,     \* the value returned by the most recent computation that returns one
    vc,         \* the ValueCache: its entries, _id_infos, _last_id, and the close() calls made
    vlast,      \* the most recent ValueCache call: its name, its arguments and the cache before it
    vcalls,     \* number of ValueCache calls made so far
    registry    \* the OpRegistry: its registrations, and the number of OpRegistration objects made

vars == <<wf, last, calls, run, result, vc, vlast, vcalls, registry>>
wfVars == <<wf, last, calls, run, result>>
vcVars == <<vc, vlast, vcalls>>

(***************************************************************************)
(* Bounds                                                                  *)
(***************************************************************************)
MaxCalls == 3
MaxInvokes == 2
MaxCacheCalls == 4
MaxIdCalls == 5

(***************************************************************************)
(* Python constants                                                        *)
(***************************************************************************)
None == "None"
UNDEFINED == "UNDEFINED"
NoError == ""
NoneStr == <<None>>
EmptyStr == <<>>
Dot == "."
RETURN_OUTPUT_NAME == <<"return">>
X == <<"x">>

(***************************************************************************)
(* The objects: one Workflow W and three Step objects.                     *)
(***************************************************************************)
W == "W"
Steps == {"S1", "S2", "S3"}
Nodes == {W} \cup Steps
PortNames == {X, RETURN_OUTPUT_NAME}

Range(f) == {f[i] : i \in DOMAIN f}

NodePort(n, side, name) == [node |-> n, side |-> side, name |-> name]
NoPort == [node |-> None, side |-> None, name |-> NoneStr]
AllPorts == {NodePort(n, side, name) : n \in Nodes, side \in {"in", "out"}, name \in PortNames}

SourceRef(node_id, port_name) ==
    [node_id |-> node_id, port_name |-> port_name, is_tuple |-> FALSE]
\* the plain tuple that NodePort.from_json stores
TupleRef(node_id, port_name) ==
    [node_id |-> node_id, port_name |-> port_name, is_tuple |-> TRUE]
NoRef == [node_id |-> NoneStr, port_name |-> NoneStr, is_tuple |-> FALSE]

NewPort == [source |-> NoPort, source_ref |-> NoRef, value |-> UNDEFINED]

\* the namespaces Node._inputs and Node._outputs, in declaration order
InputPorts(s, n) == [i \in 1..Len(s.inputs[n]) |-> NodePort(n, "in", s.inputs[n][i])]
OutputPorts(s, n) == [i \in 1..Len(s.outputs[n]) |-> NodePort(n, "out", s.outputs[n][i])]

\* chain(self._outputs[:], self._inputs[:])
PortList(s, n) == OutputPorts(s, n) \o InputPorts(s, n)
PortsOf(s, n) == Range(PortList(s, n))

(***************************************************************************)
(* Helpers for Python lists and dicts                                      *)
(***************************************************************************)
IndexOf(seq, x) == CHOOSE i \in 1..Len(seq) : seq[i] = x /\ \A j \in 1..(i-1) : seq[j] # x
ListRemove(seq, x) ==
    LET i == IndexOf(seq, x)
    IN  SubSeq(seq, 1, i - 1) \o SubSeq(seq, i + 1, Len(seq))
DictSet(d, k, v) == [x \in DOMAIN d \cup {k} |-> IF x = k THEN v ELSE d[x]]
DictPop(d, k) == [x \in DOMAIN d \ {k} |-> d[x]]
DictGet(d, k) == IF k \in DOMAIN d THEN d[k] ELSE None
EmptyDict == [x \in {} |-> None]

Raise(s, e) == [s EXCEPT !.exc = e]

\* a Python for loop over seq whose body is Op; an exception ends the loop
FoldSeq(Op(_, _), s0, seq) ==
    LET f[i \in 0..Len(seq)] ==
            IF i = 0 THEN s0
            ELSE IF f[i-1].exc # NoError THEN f[i-1]
            ELSE Op(f[i-1], seq[i])
    IN  f[Len(seq)]

(***************************************************************************)
(* NodePort                                                                *)
(***************************************************************************)
\* a variant of the value setter that leaves the source as it is
SetValueKeepSource(s, p, v) == [s EXCEPT !.port[p].value = v]

SetValue(s, p, v) ==
    [s EXCEPT !.port[p] = [source |-> NoPort, source_ref |-> NoRef, value |-> v]]

\* a variant of the source setter without the test for the port itself
SetSourceUnchecked(s, p, q) ==
    [s EXCEPT !.port[p] =
        [source |-> q,
         source_ref |-> IF q # NoPort THEN SourceRef(s.id[q.node], q.name) ELSE NoRef,
         value |-> UNDEFINED]]

SetSource(s, p, q) ==
    IF p = q THEN Raise(s, "ValueError")
    ELSE [s EXCEPT !.port[p] =
            [source |-> q,
             source_ref |-> IF q # NoPort THEN SourceRef(s.id[q.node], q.name) ELSE NoRef,
             value |-> UNDEFINED]]

\* has_value, value: "RecursionError" when the chain of sources does not end
RECURSIVE HasValue(_, _, _)
HasValue(s, p, depth) ==
    IF depth > Cardinality(AllPorts) THEN "RecursionError"
    ELSE IF s.port[p].source # NoPort THEN HasValue(s, s.port[p].source, depth + 1)
    ELSE IF s.port[p].value = UNDEFINED THEN "False"
    ELSE "True"

IsValue(s, p) == s.port[p].source = NoPort /\ s.port[p].value # UNDEFINED

RECURSIVE Value(_, _, _)
Value(s, p, depth) ==
    IF depth > Cardinality(AllPorts) THEN "RecursionError"
    ELSE IF s.port[p].source # NoPort THEN Value(s, s.port[p].source, depth + 1)
    ELSE IF s.port[p].value = UNDEFINED THEN None
    ELSE s.port[p].value

(***************************************************************************)
(* Node and Workflow: lookup, renaming, source resolution                  *)
(***************************************************************************)
\* Workflow.parent_node is None; Step.parent_node is the workflow it was added to
RootNode(s, n) == IF n \in Steps /\ s.parent[n] # None THEN s.parent[n] ELSE n

FindPort(s, n, name) ==
    IF name \in Range(s.outputs[n]) THEN NodePort(n, "out", name)
    ELSE IF name \in Range(s.inputs[n]) THEN NodePort(n, "in", name)
    ELSE NoPort

\* Node.find_node, which every step inherits, a WorkflowStep too
NodeFindNode(s, n, node_id) == None

\* Workflow.find_node: a direct child, else the first node that the find_node of a child finds
WorkflowFindNode(s, step_id) ==
    LET step == DictGet(s.steps_dict, step_id)
        other_node == [i \in 1..Len(s.steps) |-> NodeFindNode(s, s.steps[i], step_id)]
        found == {i \in 1..Len(s.steps) : other_node[i] # None}
    IN  IF step # None THEN step
        ELSE IF found # {} THEN other_node[CHOOSE i \in found : \A j \in found : i <= j]
        ELSE None

FindNode(s, n, node_id) ==
    IF n = W THEN WorkflowFindNode(s, node_id) ELSE NodeFindNode(s, n, node_id)

UpdateSourceNodeId(s, p, node, old_node_id) ==
    LET ref == s.port[p].source_ref
    IN  IF ref = NoRef THEN s
        ELSE IF ref.is_tuple THEN Raise(s, "AttributeError")
        ELSE IF ref.node_id = old_node_id THEN SetSource(s, p, FindPort(s, node, ref.port_name))
        ELSE s

NodeUpdateSourcesNodeId(s, n, changed_node, old_id) ==
    FoldSeq(LAMBDA st, p : UpdateSourceNodeId(st, p, changed_node, old_id), s, PortList(s, n))

WorkflowUpdateSourcesNodeId(s, changed_node, old_id) ==
    LET s1 == NodeUpdateSourcesNodeId(s, W, changed_node, old_id)
        s2 == IF s1.exc = NoError /\ old_id \in DOMAIN s1.steps_dict
              THEN [s1 EXCEPT !.steps_dict =
                        DictSet(DictPop(@, old_id), s1.id[changed_node], changed_node)]
              ELSE s1
    IN  FoldSeq(LAMBDA st, step : NodeUpdateSourcesNodeId(st, step, changed_node, old_id),
                s2, s2.steps)

SetId(s, n, node_id) ==
    IF node_id = EmptyStr THEN Raise(s, "ValueError")
    ELSE IF node_id = s.id[n] THEN s
    ELSE LET old_id == s.id[n]
             s1 == [s EXCEPT !.id[n] = node_id]
         IN  IF RootNode(s1, n) = W
             THEN WorkflowUpdateSourcesNodeId(s1, n, old_id)
             ELSE NodeUpdateSourcesNodeId(s1, RootNode(s1, n), n, old_id)

\* a variant of the dotted form's search that looks at the node of the port only
ScopePortOwnNode(s, n, name) == FindPort(s, n, name)

\* the port named name of the nearest of: the node, its parent
ScopePort(s, n, name) ==
    IF FindPort(s, n, name) # NoPort THEN FindPort(s, n, name)
    ELSE IF n \in Steps /\ s.parent[n] # None THEN FindPort(s, s.parent[n], name)
    ELSE NoPort

\* a variant of update_source that takes the first output of a node named without a port
UpdateSourceFirstOutput(s, p) ==
    LET ref == s.port[p].source_ref
        other_node_id == ref.node_id
        other_name == ref.port_name
        root_node == RootNode(s, p.node)
        other_node == IF other_node_id = NoneStr THEN None
                      ELSE IF s.id[root_node] = other_node_id THEN root_node
                      ELSE FindNode(s, root_node, other_node_id)
    IN  IF ref = NoRef THEN s
        ELSE IF other_node_id # NoneStr /\ other_name # NoneStr THEN
            IF other_node # None /\ FindPort(s, other_node, other_name) # NoPort
            THEN SetSource(s, p, FindPort(s, other_node, other_name))
            ELSE Raise(s, "ValueError")
        ELSE IF other_node_id # NoneStr THEN
            IF other_node # None /\ Len(s.outputs[other_node]) >= 1
            THEN SetSource(s, p, OutputPorts(s, other_node)[1])
            ELSE Raise(s, "ValueError")
        ELSE IF ScopePort(s, p.node, other_name) # NoPort
            THEN SetSource(s, p, ScopePort(s, p.node, other_name))
            ELSE Raise(s, "ValueError")

UpdateSource(s, p) ==
    LET ref == s.port[p].source_ref
        other_node_id == ref.node_id
        other_name == ref.port_name
        root_node == RootNode(s, p.node)
        other_node == IF other_node_id = NoneStr THEN None
                      ELSE IF s.id[root_node] = other_node_id THEN root_node
                      ELSE FindNode(s, root_node, other_node_id)
    IN  IF ref = NoRef THEN s
        ELSE IF other_node_id # NoneStr /\ other_name # NoneStr THEN
            IF other_node # None /\ FindPort(s, other_node, other_name) # NoPort
            THEN SetSource(s, p, FindPort(s, other_node, other_name))
            ELSE Raise(s, "ValueError")
        ELSE IF other_node_id # NoneStr THEN
            IF other_node # None /\ Len(s.outputs[other_node]) = 1
            THEN SetSource(s, p, OutputPorts(s, other_node)[1])
            ELSE Raise(s, "ValueError")
        ELSE IF ScopePort(s, p.node, other_name) # NoPort
            THEN SetSource(s, p, ScopePort(s, p.node, other_name))
            ELSE Raise(s, "ValueError")

NodeUpdateSources(s, n) == FoldSeq(UpdateSource, s, PortList(s, n))

WorkflowUpdateSources(s) ==
    FoldSeq(NodeUpdateSources, NodeUpdateSources(s, W), s.steps)

\* a variant of RemoveOrphanedSource that clears the port through its source, leaving it undefined
RemoveOrphanedSourceUndefined(s, p, orphaned_node) ==
    IF s.port[p].source # NoPort /\ s.port[p].source.node = orphaned_node
    THEN SetSource(s, p, NoPort)
    ELSE s

RemoveOrphanedSource(s, p, orphaned_node) ==
    IF s.port[p].source # NoPort /\ s.port[p].source.node = orphaned_node
    THEN SetValue(s, p, None)
    ELSE s

NodeRemoveOrphanedSources(s, n, orphaned_node) ==
    FoldSeq(LAMBDA st, p : RemoveOrphanedSource(st, p, orphaned_node), s, PortList(s, n))

WorkflowRemoveOrphanedSources(s, removed_node) ==
    FoldSeq(LAMBDA st, step : NodeRemoveOrphanedSources(st, step, removed_node),
            NodeRemoveOrphanedSources(s, W, removed_node), s.steps)

(***************************************************************************)
(* Workflow.add_step and Workflow.remove_step; ret is the returned step    *)
(***************************************************************************)
\* a variant of AddStepResolve that neither resolves again nor cleans up
AddStepResolveNothing(s, old_step) == s

AddStepResolve(s, old_step) ==
    LET s1 == WorkflowUpdateSources(s)
    IN  IF s1.exc # NoError THEN s1 ELSE WorkflowRemoveOrphanedSources(s1, old_step)

AddStep(s, new_step, can_exist) ==
    LET old_step == DictGet(s.steps_dict, s.id[new_step])
        s1 == IF old_step # None
              THEN [s EXCEPT !.steps[IndexOf(s.steps, old_step)] = new_step]
              ELSE [s EXCEPT !.steps = Append(@, new_step)]
        s2 == [s1 EXCEPT !.steps_dict = DictSet(@, s.id[new_step], new_step),
                         !.parent[new_step] = W]
    IN  IF old_step # None /\ ~can_exist THEN Raise(s, "ValueError")
        ELSE IF old_step # None /\ old_step \notin Range(s.steps) THEN Raise(s, "ValueError")
        ELSE IF old_step # None /\ old_step # new_step
             THEN [AddStepResolve(s2, old_step) EXCEPT !.ret = old_step]
        ELSE [s2 EXCEPT !.ret = old_step]

RemoveStep(s, step_id, must_exist) ==
    LET old_step == s.steps_dict[step_id]
        s1 == [s EXCEPT !.steps_dict = DictPop(@, step_id)]
        s2 == [s1 EXCEPT !.steps = ListRemove(@, old_step),
                         !.parent = [n \in Steps |-> IF n = old_step THEN None ELSE @[n]]]
    IN  IF step_id \notin DOMAIN s.steps_dict
        THEN IF must_exist THEN Raise(s, "ValueError") ELSE [s EXCEPT !.ret = None]
        ELSE IF old_step \notin Range(s1.steps) THEN Raise(s1, "ValueError")
        ELSE [WorkflowRemoveOrphanedSources(s2, old_step) EXCEPT !.ret = old_step]

SetPersistent(s, n, value) == [s EXCEPT !.persistent[n] = value]

(***************************************************************************)
(* The state after construction: Workflow(op_meta_info) and three steps,   *)
(* each constructed with a node_id, none added yet; every port is new.     *)
(* S1 and S2 are OpSteps of an operation with input x and the output       *)
(* "return"; S3 is a NoOpStep with input x and output x.                   *)
(***************************************************************************)
A == <<"a">>
B == <<"b">>
QualifiedName == <<"w">>
StepIds == {A, B}
NewIds == StepIds \cup {EmptyStr}

NodeKind(n) == IF n = W THEN "Workflow" ELSE IF n = "S3" THEN "NoOpStep" ELSE "OpStep"
InputNames(n) == <<X>>
OutputNames(n) == IF n = "S3" THEN <<X>> ELSE <<RETURN_OUTPUT_NAME>>

\* the id of the WorkflowStep that holds the workflow
WS_ID == <<"ws">>

\* can_cache is a flag of op_meta_info; ws is the WorkflowStep constructed on the
\* workflow, with its id and the value of its output "return"
NewWorkflow(ids) ==
    [id |-> ids,
     kind |-> [n \in Nodes |-> NodeKind(n)],
     inputs |-> [n \in Nodes |-> InputNames(n)],
     outputs |-> [n \in Nodes |-> OutputNames(n)],
     persistent |-> [n \in Steps |-> FALSE],
     parent |-> [n \in Steps |-> None],
     steps |-> <<>>,
     steps_dict |-> EmptyDict,
     port |-> [p \in AllPorts |-> NewPort],
     can_cache |-> [n \in Nodes |-> TRUE],
     ws |-> [id |-> WS_ID, out |-> UNDEFINED],
     exc |-> NoError,
     ret |-> None]

InitIds == {[n \in Nodes |-> IF n = W THEN QualifiedName
                             ELSE IF n = "S1" THEN A
                             ELSE IF n = "S2" THEN i2
                             ELSE B] : i2 \in StepIds}

\* ctx: the value_cache of the context ("none", "outer": the cache given to invoke,
\* "child": its child for the WorkflowStep); ws: the workflow is invoked by its
\* WorkflowStep; called: for each step invoked, whether its operation was called;
\* canceled, cancel_at, saved: the monitor was cancelled, after how many steps,
\* and the entries that the context's cache had then
Idle == [pc |-> "idle", todo |-> <<>>, invoked |-> <<>>, count |-> 0,
         ctx |-> "none", ws |-> FALSE, called |-> <<>>,
         canceled |-> FALSE, cancel_at |-> 0, saved |-> EmptyDict]
NoCall == [op |-> "none", a |-> None, b |-> None, pre |-> None]
NoResult == [exc |-> NoError, val |-> None]

\* a call starts with no exception pending and no return value
Call(s) == [s EXCEPT !.exc = NoError, !.ret = None]

\* the ports the model assigns sources to, and the ports it uses as sources
WireTargets == {NodePort("S1", "in", X), NodePort("S2", "in", X),
                NodePort("S3", "out", X), NodePort(W, "out", RETURN_OUTPUT_NAME)}
WireSources == {NodePort("S1", "out", RETURN_OUTPUT_NAME), NodePort("S2", "out", RETURN_OUTPUT_NAME),
                NodePort("S3", "out", X), NodePort("S3", "in", X), NodePort(W, "in", X), NoPort}
ValueTargets == {NodePort("S1", "in", X), NodePort("S3", "in", X), NodePort(W, "in", X)}
Literals == {"v1"}

Mutate(op, a, b, s) ==
    /\ run.pc = "idle"
    /\ calls < MaxCalls
    /\ calls' = calls + 1
    /\ wf' = s
    /\ last' = [op |-> op, a |-> a, b |-> b, pre |-> Call(wf)]
    /\ result' = NoResult
    /\ UNCHANGED <<registry, run, vcVars>>

DoSetSource == \E p \in WireTargets, q \in WireSources :
    Mutate("set_source", p, q, SetSource(Call(wf), p, q))

DoSetValue == \E p \in ValueTargets, v \in Literals :
    Mutate("set_value", p, v, SetValue(Call(wf), p, v))

DoSetId == \E n \in Nodes, i \in NewIds :
    Mutate("set_id", n, i, SetId(Call(wf), n, i))

DoAddStep == \E n \in Steps, can_exist \in BOOLEAN :
    Mutate("add_step", n, can_exist, AddStep(Call(wf), n, can_exist))

DoRemoveStep == \E i \in StepIds, must_exist \in BOOLEAN :
    Mutate("remove_step", i, must_exist, RemoveStep(Call(wf), i, must_exist))

DoSetPersistent == \E n \in Steps, v \in BOOLEAN :
    Mutate("set_persistent", n, v, SetPersistent(Call(wf), n, v))

(***************************************************************************)
(* Invocation.  The operation of an OpStep is an opaque callable: its      *)
(* return value is any of Results.                                         *)
(***************************************************************************)
Results == {"v1", "v2"}

\* input_values of OpStep._invoke_impl: the inputs that have a value
InputValues(s, n) ==
    [p \in {q \in Range(InputPorts(s, n)) : HasValue(s, q, 0) = "True"} |-> Value(s, p, 0)]

OpStepInvoke(s, n, return_value) ==
    IF \E p \in Range(InputPorts(s, n)) : HasValue(s, p, 0) = "RecursionError"
    THEN Raise(s, "RecursionError")
    ELSE SetValue(s, NodePort(n, "out", RETURN_OUTPUT_NAME), return_value)

NoOpStepInvoke(s, n) == s

StepInvoke(s, n, return_value) ==
    IF s.kind[n] = "OpStep" THEN OpStepInvoke(s, n, return_value) ELSE NoOpStepInvoke(s, n)

\* Workflow._invoke_impl: invoke_steps(self.steps)
InvokeOrder(s) == s.steps

\* Workflow.invoke with no value_cache in the context enters invoke_steps with
\* the steps to invoke
StartInvoke ==
    /\ run.pc = "idle"
    /\ run.count < MaxInvokes
    /\ run' = [Idle EXCEPT !.pc = "running", !.todo = InvokeOrder(wf), !.count = run.count + 1]
    /\ wf' = Call(wf)
    /\ last' = [op |-> "invoke", a |-> None, b |-> None, pre |-> Call(wf)]
    /\ result' = NoResult
    /\ UNCHANGED <<registry, calls, vcVars>>

\* one iteration of the loop of invoke_steps: step.invoke(...)
InvokeStep == \E r \in Results :
    /\ run.pc = "running"
    /\ run.ctx = "none"
    /\ run.todo # <<>>
    /\ wf.exc = NoError
    /\ wf' = StepInvoke(wf, Head(run.todo), r)
    /\ run' = [run EXCEPT !.todo = Tail(@), !.invoked = Append(@, Head(run.todo)),
                          !.called = Append(@, /\ wf.kind[Head(run.todo)] = "OpStep"
                                               /\ StepInvoke(wf, Head(run.todo), r).exc = NoError)]
    /\ UNCHANGED <<registry, last, calls, result, vcVars>>

\* invoke_steps returns, or an exception of a step leaves it
EndInvoke ==
    /\ run.pc = "running"
    /\ run.ctx = "none"
    /\ run.todo = <<>> \/ wf.exc # NoError
    /\ run' = [run EXCEPT !.pc = "idle"]
    /\ UNCHANGED <<registry, wf, last, calls, result, vcVars>>

(***************************************************************************)
(* Step order: Node.requires, Node.max_distance_to, Workflow.sort_steps.   *)
(* A distance is a record: exc names the exception raised, d the value.    *)
(***************************************************************************)
Max(a, b) == IF a > b THEN a ELSE b

\* other_node.is_direct_source_of(n): "True", "False" or the exception raised.
\* "other_port.source is self" compares a port with a node and is never true.
IsDirectSourceOf(s, other_node, n) ==
    LET ports == InputPorts(s, n)
        scan[i \in 1..(Len(ports) + 1)] ==
            IF i > Len(ports) THEN "False"
            ELSE LET ref == s.port[ports[i]].source_ref
                 IN  IF ref = NoRef THEN scan[i + 1]
                     ELSE IF ref.is_tuple THEN "AttributeError"
                     ELSE IF ref.node_id = s.id[other_node] THEN "True"
                     ELSE scan[i + 1]
    IN  scan[1]

\* a recursion deeper than the number of nodes runs around a cycle and never ends
RECURSIVE MaxDistanceTo(_, _, _, _)
MaxDistanceTo(s, n, other_node, depth) ==
    IF depth > Cardinality(Nodes) THEN [exc |-> "RecursionError", d |-> -1]
    ELSE IF other_node = n THEN [exc |-> NoError, d |-> 0]
    ELSE LET direct == IsDirectSourceOf(s, other_node, n)
             ports == InputPorts(s, n)
             loop[i \in 0..Len(ports)] ==
                 IF i = 0 THEN [exc |-> NoError, d |-> IF direct = "True" THEN 1 ELSE -1]
                 ELSE IF loop[i-1].exc # NoError THEN loop[i-1]
                 ELSE IF s.port[ports[i]].source = NoPort THEN loop[i-1]
                 ELSE LET distance == MaxDistanceTo(s, s.port[ports[i]].source.node,
                                                    other_node, depth + 1)
                      IN  IF distance.exc # NoError THEN distance
                          ELSE IF distance.d > 0
                               THEN [exc |-> NoError, d |-> Max(loop[i-1].d, distance.d + 1)]
                          ELSE loop[i-1]
         IN  IF direct = "AttributeError" THEN [exc |-> "AttributeError", d |-> -1]
             ELSE loop[Len(ports)]

\* n.requires(other_node), when max_distance_to returns
Requires(s, n, other_node) == MaxDistanceTo(s, n, other_node, 0).d > 0

\* the max_dist that sort_steps computes for steps[i1]
SortMaxDist(s, steps, i1) ==
    LET loop[i2 \in 0..Len(steps)] ==
            IF i2 = 0 THEN [exc |-> NoError, d |-> 0]
            ELSE IF loop[i2-1].exc # NoError \/ i1 = i2 THEN loop[i2-1]
            ELSE LET dist == MaxDistanceTo(s, steps[i1], steps[i2], 0)
                 IN  IF dist.exc # NoError THEN dist
                     ELSE IF dist.d > 0 THEN [exc |-> NoError, d |-> Max(loop[i2-1].d, dist.d)]
                     ELSE loop[i2-1]
    IN  loop[Len(steps)]

\* sorted(list, key=...): ascending by key, equal keys keep their order
StableSort(seq, key) ==
    LET rank(i) == 1 + Cardinality({j \in 1..Len(seq) :
                        key[j] < key[i] \/ (key[j] = key[i] /\ j < i)})
    IN  [r \in 1..Len(seq) |-> seq[CHOOSE i \in 1..Len(seq) : rank(i) = r]]

SortSteps(s, steps) ==
    LET dists == [i1 \in 1..Len(steps) |-> SortMaxDist(s, steps, i1)]
        failed == {i1 \in 1..Len(steps) : dists[i1].exc # NoError}
        first == CHOOSE i1 \in failed : \A i \in failed : i1 <= i
    IN  IF Len(steps) < 2 THEN [exc |-> NoError, val |-> steps]
        ELSE IF failed # {} THEN [exc |-> dists[first].exc, val |-> None]
        ELSE [exc |-> NoError, val |-> StableSort(steps, [i \in 1..Len(steps) |-> dists[i].d])]

\* a call that returns a value and leaves the object graph alone
Compute(op, r) ==
    /\ run.pc = "idle"
    /\ result' = r
    /\ last' = [op |-> op, a |-> None, b |-> None, pre |-> Call(wf)]
    /\ UNCHANGED <<registry, wf, calls, run, vcVars>>

\* Node.collect_predecessors: acc is the list predecessors and the exception raised,
\* if any; a recursion deeper than the number of nodes runs around a cycle and never ends
RECURSIVE CollectPredecessors(_, _, _, _, _)
CollectPredecessors(s, n, acc, excludes, depth) ==
    IF depth > Cardinality(Nodes) THEN [exc |-> "RecursionError", val |-> acc.val]
    ELSE IF n \in excludes THEN acc
    ELSE LET ports == InputPorts(s, n)
             removed == IF n \in Range(acc.val) THEN ListRemove(acc.val, n) ELSE acc.val
             loop[i \in 0..Len(ports)] ==
                 IF i = 0 THEN [exc |-> NoError, val |-> <<n>> \o removed]
                 ELSE IF loop[i-1].exc # NoError THEN loop[i-1]
                 ELSE IF s.port[ports[i]].source = NoPort THEN loop[i-1]
                 ELSE CollectPredecessors(s, s.port[ports[i]].source.node, loop[i-1],
                                          excludes, depth + 1)
         IN  loop[Len(ports)]

FindStepsToCompute(s, step_id) ==
    LET step == DictGet(s.steps_dict, step_id)
        steps == CollectPredecessors(s, step, [exc |-> NoError, val |-> <<>>], {W}, 0)
    IN  IF step = None THEN [exc |-> "ValueError", val |-> None]
        ELSE IF steps.exc # NoError THEN [exc |-> steps.exc, val |-> None]
        ELSE steps

DoFindStepsToCompute == \E step_id \in StepIds :
    /\ run.pc = "idle"
    /\ result' = FindStepsToCompute(wf, step_id)
    /\ last' = [op |-> "find_steps_to_compute", a |-> step_id, b |-> None, pre |-> Call(wf)]
    /\ UNCHANGED <<wf, calls, run, vcVars, registry>>

DoSortedSteps == Compute("sorted_steps", SortSteps(wf, wf.steps))

(***************************************************************************)
(* JSON.  A port's JSON is a string (is_str) or a dict with the keys in    *)
(* keys; a namespace's JSON is a list of <<name, port JSON>>.              *)
(***************************************************************************)
EmptyJsonDict == [is_str |-> FALSE, keys |-> {}, source |-> EmptyStr, value |-> None]

\* str(port): the short form for the port named "return", else the dot form
PortStr(s, p) ==
    IF p.name = RETURN_OUTPUT_NAME THEN s.id[p.node]
    ELSE s.id[p.node] \o <<Dot>> \o p.name

ToJsonValue(v) == v
FromJsonValue(v) == v

ToJson(s, p, force_dict) ==
    IF s.port[p].source # NoPort
    THEN [is_str |-> ~force_dict, keys |-> IF force_dict THEN {"source"} ELSE {},
          source |-> PortStr(s, s.port[p].source), value |-> None]
    ELSE IF s.port[p].value # UNDEFINED /\ p.name \notin Range(s.outputs[p.node])
    THEN [is_str |-> FALSE, keys |-> {"value"}, source |-> EmptyStr,
          value |-> ToJsonValue(s.port[p].value)]
    ELSE EmptyJsonDict

\* the truth value of a port's JSON
JsonTruthy(pj) == pj.is_str \/ pj.keys # {}

SelectSeqBy(seq, Test(_)) ==
    LET f[i \in 0..Len(seq)] ==
            IF i = 0 THEN <<>>
            ELSE IF Test(seq[i]) THEN Append(f[i-1], seq[i]) ELSE f[i-1]
    IN  f[Len(seq)]

PortsJson(s, ports, force_dict) ==
    [i \in 1..Len(ports) |-> <<ports[i].name, ToJson(s, ports[i], force_dict)>>]

\* Step.get_inputs_json_dict, and OpStep's, which leaves out the empty ones
GetInputsJsonDict(s, n) ==
    IF s.kind[n] = "OpStep"
    THEN SelectSeqBy(PortsJson(s, InputPorts(s, n), FALSE), LAMBDA e : JsonTruthy(e[2]))
    ELSE PortsJson(s, InputPorts(s, n), FALSE)

\* Step.get_outputs_json_dict, and OpStep's, which returns None
GetOutputsJsonDict(s, n) ==
    IF s.kind[n] = "OpStep" THEN <<>> ELSE PortsJson(s, OutputPorts(s, n), FALSE)

StepToJsonDict(s, n) ==
    [id |-> s.id[n],
     keys |-> (IF s.persistent[n] THEN {"persistent"} ELSE {})
              \cup (IF s.kind[n] = "OpStep" THEN {"op", "inputs"}
                    ELSE {"no_op", "inputs", "outputs"}),
     inputs |-> GetInputsJsonDict(s, n),
     outputs |-> GetOutputsJsonDict(s, n)]

WorkflowToJsonDict(s) ==
    [qualified_name |-> QualifiedName,
     inputs |-> PortsJson(s, InputPorts(s, W), TRUE),
     outputs |-> PortsJson(s, OutputPorts(s, W), TRUE),
     steps |-> [i \in 1..Len(s.steps) |-> StepToJsonDict(s, s.steps[i])]]

\* text.rsplit('.', maxsplit=1)
RSplit(text) ==
    LET dots == {i \in 1..Len(text) : text[i] = Dot}
        k == CHOOSE i \in dots : \A j \in dots : j <= i
    IN  IF dots = {} THEN <<text>>
        ELSE <<SubSeq(text, 1, k - 1), SubSeq(text, k + 1, Len(text))>>

\* a variant of from_json that takes the source of a dict that has source and value
PortFromJsonSourceFirst(s, p, pj) ==
    LET s0 == [s EXCEPT !.port[p] = NewPort]
        parts == RSplit(pj.source)
    IN  IF ~pj.is_str /\ "source" \notin pj.keys
        THEN IF "value" \in pj.keys THEN SetValue(s0, p, FromJsonValue(pj.value)) ELSE s0
        ELSE IF Len(parts) = 1 /\ parts[1] # EmptyStr
        THEN [s0 EXCEPT !.port[p].source_ref = TupleRef(parts[1], NoneStr)]
        ELSE IF Len(parts) = 2 /\ parts[2] # EmptyStr
        THEN [s0 EXCEPT !.port[p].source_ref =
                 TupleRef(IF parts[1] # EmptyStr THEN parts[1] ELSE NoneStr, parts[2])]
        ELSE Raise(s0, "ValueError")

PortFromJson(s, p, pj) ==
    LET s0 == [s EXCEPT !.port[p] = NewPort]
        parts == RSplit(pj.source)
    IN  IF ~pj.is_str /\ "source" \in pj.keys /\ "value" \in pj.keys THEN Raise(s0, "ValueError")
        ELSE IF ~pj.is_str /\ "source" \notin pj.keys
        THEN IF "value" \in pj.keys THEN SetValue(s0, p, FromJsonValue(pj.value)) ELSE s0
        ELSE IF Len(parts) = 1 /\ parts[1] # EmptyStr
        THEN [s0 EXCEPT !.port[p].source_ref = TupleRef(parts[1], NoneStr)]
        ELSE IF Len(parts) = 2 /\ parts[2] # EmptyStr
        THEN [s0 EXCEPT !.port[p].source_ref =
                 TupleRef(IF parts[1] # EmptyStr THEN parts[1] ELSE NoneStr, parts[2])]
        ELSE Raise(s0, "ValueError")

\* the loop of Step.from_json_dict over one namespace: a port not yet there is created
StepPortsFromJson(s, n, side, ports_json) ==
    FoldSeq(LAMBDA st, e :
                LET names == IF side = "in" THEN st.inputs[n] ELSE st.outputs[n]
                    st1 == IF e[1] \in Range(names) THEN st
                           ELSE IF side = "in" THEN [st EXCEPT !.inputs[n] = Append(@, e[1])]
                           ELSE [st EXCEPT !.outputs[n] = Append(@, e[1])]
                IN  PortFromJson(st1, NodePort(n, side, e[1]), e[2]),
            s, ports_json)

\* Step.from_json_dict: obj is the step object that new_step_from_json_dict creates
StepFromJsonDict(s, obj, sj) ==
    LET is_op == "op" \in sj.keys
        s1 == [s EXCEPT !.id[obj] = sj.id,
                        !.kind[obj] = IF is_op THEN "OpStep" ELSE "NoOpStep",
                        !.inputs[obj] = IF is_op THEN <<X>> ELSE <<>>,
                        !.outputs[obj] = <<RETURN_OUTPUT_NAME>>,
                        !.parent[obj] = None,
                        !.persistent[obj] = "persistent" \in sj.keys,
                        !.port = [p \in AllPorts |-> IF p.node = obj THEN NewPort ELSE @[p]]]
        s2 == StepPortsFromJson(s1, obj, "in", sj.inputs)
    IN  IF s2.exc # NoError THEN s2 ELSE StepPortsFromJson(s2, obj, "out", sj.outputs)

Names(ports_json) == [i \in 1..Len(ports_json) |-> ports_json[i][1]]

\* Workflow.from_json_dict; objs are the step objects it creates, in order
WorkflowFromJsonDict(j, objs, ids) ==
    LET s0 == [NewWorkflow(ids) EXCEPT !.id[W] = j.qualified_name,
                                       !.inputs[W] = Names(j.inputs),
                                       !.outputs[W] = Names(j.outputs)]
        s1 == FoldSeq(LAMBDA st, i : StepFromJsonDict(st, objs[i], j.steps[i]),
                      s0, [i \in 1..Len(j.steps) |-> i])
        s2 == FoldSeq(LAMBDA st, obj : AddStep(st, obj, FALSE), s1, objs)
        s3 == FoldSeq(LAMBDA st, e : PortFromJson(st, NodePort(W, "in", e[1]), e[2]), s2, j.inputs)
        s4 == FoldSeq(LAMBDA st, e : PortFromJson(st, NodePort(W, "out", e[1]), e[2]), s3, j.outputs)
    IN  IF s4.exc # NoError THEN s4 ELSE WorkflowUpdateSources(s4)

RoundTrip(s) == WorkflowFromJsonDict(WorkflowToJsonDict(s), s.steps, s.id)

DoRoundTrip ==
    LET loaded == RoundTrip(Call(wf))
    IN  Compute("round_trip", [exc |-> loaded.exc, val |-> loaded])

(***************************************************************************)
(* ValueCache.  A value is None, a closable object, or a child ValueCache; *)
(* a key is a sequence of tokens, key + '._child' appends one token.       *)
(* The state: cache is the ValueCache, closed counts the close() calls     *)
(* each closable object has received, exc the exception of the last call.  *)
(***************************************************************************)
NoneValue == [kind |-> "none"]
Obj(name) == [kind |-> "obj", name |-> name]
NewValueCache == [kind |-> "cache", dict |-> EmptyDict, id_infos |-> EmptyDict, last_id |-> 0]

Objects == {"o1", "o2"}
Values == {NoneValue} \cup {Obj(o) : o \in Objects}
ChildSuffix == "._child"
ChildKey(key) == Append(key, ChildSuffix)
KA == <<"a">>
KB == <<"b">>
Keys == {KA, KB, ChildKey(KA)}

EmptyCache == [cache |-> NewValueCache, closed |-> [o \in Objects |-> 0], exc |-> NoError]

\* dict.get(key): None when the key is missing
CacheGet(c, key) == IF key \in DOMAIN c.dict THEN c.dict[key] ELSE NoneValue

\* _close_value: close() of an object is counted, close() of a child cache closes its values
RECURSIVE CloseValue(_, _)
CloseValue(closed, value) ==
    IF value.kind = "obj" THEN [closed EXCEPT ![value.name] = @ + 1]
    ELSE IF value.kind = "cache"
    THEN LET keys == DOMAIN value.dict
             RECURSIVE CloseAll(_, _)
             CloseAll(cl, ks) ==
                 IF ks = {} THEN cl
                 ELSE LET k == CHOOSE x \in ks : TRUE
                      IN  CloseAll(CloseValue(cl, value.dict[k]), ks \ {k})
         IN  CloseAll(closed, keys)
    ELSE closed

\* _close_values
CloseValues(st) == [st EXCEPT !.closed = CloseValue(@, st.cache)]

GenId(c) == [c EXCEPT !.last_id = @ + 1]

\* a variant of CacheSet that always generates a new id and starts the count again
CacheSetFreshId(st, key, value) ==
    LET old_value == CacheGet(st.cache, key)
        c1 == GenId([st.cache EXCEPT !.dict = DictSet(@, key, value)])
        c2 == [c1 EXCEPT !.id_infos = DictSet(@, key, <<c1.last_id, 0>>)]
    IN  [st EXCEPT !.cache = c2,
                   !.closed = IF old_value # value THEN CloseValue(@, old_value) ELSE @]

\* __setitem__
CacheSet(st, key, value) ==
    LET old_value == CacheGet(st.cache, key)
        c1 == [st.cache EXCEPT !.dict = DictSet(@, key, value)]
        c2 == IF key \in DOMAIN c1.id_infos
              THEN [c1 EXCEPT !.id_infos[key] = <<@[1], @[2] + 1>>]
              ELSE LET c == GenId(c1)
                   IN  [c EXCEPT !.id_infos = DictSet(@, key, <<c.last_id, 0>>)]
    IN  [st EXCEPT !.cache = c2,
                   !.closed = IF old_value # value THEN CloseValue(@, old_value) ELSE @]

\* __delitem__
CacheDel(st, key) ==
    LET old_value == CacheGet(st.cache, key)
        st1 == [st EXCEPT !.cache.dict = DictPop(@, key)]
        st2 == [st1 EXCEPT !.cache.id_infos = DictPop(@, key)]
    IN  IF key \notin DOMAIN st.cache.dict THEN Raise(st, "KeyError")
        ELSE IF key \notin DOMAIN st.cache.id_infos THEN Raise(st1, "KeyError")
        ELSE [st2 EXCEPT !.closed = CloseValue(@, old_value)]

\* pop: dict.pop takes no keyword arguments
CachePop(st, key, default) == Raise(st, "TypeError")

\* rename_key
CacheRenameKey(st, key, new_key) ==
    LET value == st.cache.dict[key]
        st1 == [st EXCEPT !.cache.dict = DictSet(DictPop(@, key), new_key, value)]
        id_info == st.cache.id_infos[key]
        st2 == [st1 EXCEPT !.cache.id_infos = DictSet(DictPop(@, key), new_key, id_info)]
        child_key == ChildKey(key)
        child_cache == st2.cache.dict[child_key]
    IN  IF key = new_key THEN st
        ELSE IF key \notin DOMAIN st.cache.dict THEN Raise(st, "KeyError")
        ELSE IF key \notin DOMAIN st.cache.id_infos THEN Raise(st1, "KeyError")
        ELSE IF child_key \in DOMAIN st2.cache.dict
        THEN [st2 EXCEPT !.cache.dict = DictSet(DictPop(@, child_key), ChildKey(new_key), child_cache)]
        ELSE st2

\* child: the entry is made with _set, it gets no id
CacheChild(st, key) ==
    IF ChildKey(key) \notin DOMAIN st.cache.dict
    THEN [st EXCEPT !.cache.dict = DictSet(@, ChildKey(key), NewValueCache)]
    ELSE st

\* a variant of CacheClear that closes nothing
CacheClearNoClose(st) ==
    [st EXCEPT !.cache.dict = EmptyDict, !.cache.id_infos = EmptyDict]

\* clear, and close, which calls it: _last_id stays
CacheClear(st) ==
    [CloseValues(st) EXCEPT !.cache.dict = EmptyDict, !.cache.id_infos = EmptyDict]

\* get_id: None when the key has no id
GetId(c, key) == IF key \in DOMAIN c.id_infos THEN c.id_infos[key][1] ELSE None

\* get_key: the first key of _id_infos that has the id, None when there is none
\* (ids are handed out once, so at most one key has it)
GetKey(c, id) ==
    LET keys == {key \in DOMAIN c.id_infos : c.id_infos[key][1] = id}
    IN  IF keys = {} THEN NoneStr ELSE CHOOSE key \in keys : TRUE

\* get_value_by_id with the default UNDEFINED
GetValueById(c, id) ==
    LET key == GetKey(c, id)
    IN  IF key # NoneStr /\ key # EmptyStr /\ key \in DOMAIN c.dict THEN c.dict[key]
        ELSE [kind |-> "val", v |-> UNDEFINED]

CacheCall(op, a, b, st) ==
    /\ vcalls < MaxCacheCalls
    /\ vcalls' = vcalls + 1
    /\ vc' = st
    /\ vlast' = [op |-> op, a |-> a, b |-> b, pre |-> [vc EXCEPT !.exc = NoError]]
    /\ UNCHANGED <<wfVars, registry>>

VcCall(st) == [st EXCEPT !.exc = NoError]

DoCacheSet == \E key \in Keys, value \in Values :
    CacheCall("set", key, value, CacheSet(VcCall(vc), key, value))

DoCacheDel == \E key \in Keys :
    CacheCall("del", key, None, CacheDel(VcCall(vc), key))

DoCachePop == \E key \in Keys :
    CacheCall("pop", key, None, CachePop(VcCall(vc), key, NoneValue))

DoCacheRenameKey == \E key \in Keys, new_key \in Keys :
    CacheCall("rename_key", key, new_key, CacheRenameKey(VcCall(vc), key, new_key))

DoCacheChild == \E key \in {KA, KB} :
    CacheCall("child", key, None, CacheChild(VcCall(vc), key))

DoCacheClear == CacheCall("clear", None, None, CacheClear(VcCall(vc)))

\* cache.child(s), the object that the calls below are made on: the child
\* cache's state, and the parent with the child's state written back.  The
\* entry under s + '._child' that is no ValueCache takes no item or method.
ChildState(st, s) == [st EXCEPT !.cache = st.cache.dict[ChildKey(s)]]
WithChild(st, s, cst) ==
    [st EXCEPT !.cache.dict[ChildKey(s)] = cst.cache, !.closed = cst.closed, !.exc = cst.exc]
IsCache(st, s) == CacheChild(st, s).cache.dict[ChildKey(s)].kind = "cache"

\* a variant of ChildCacheSet that assigns in the parent
ChildCacheSetInParent(st, s, key, value) == CacheSet(st, key, value)

\* cache.child(s)[key] = value
ChildCacheSet(st, s, key, value) ==
    IF ~IsCache(st, s) THEN Raise(st, "TypeError")
    ELSE WithChild(CacheChild(st, s), s, CacheSet(ChildState(CacheChild(st, s), s), key, value))

\* del cache.child(s)[key]
ChildCacheDel(st, s, key) ==
    IF ~IsCache(st, s) THEN Raise(st, "TypeError")
    ELSE WithChild(CacheChild(st, s), s, CacheDel(ChildState(CacheChild(st, s), s), key))

\* cache.child(s).rename_key(key, new_key)
ChildCacheRenameKey(st, s, key, new_key) ==
    IF ~IsCache(st, s) THEN Raise(st, "AttributeError")
    ELSE WithChild(CacheChild(st, s), s,
                   CacheRenameKey(ChildState(CacheChild(st, s), s), key, new_key))

\* cache.child(s).clear()
ChildCacheClear(st, s) ==
    IF ~IsCache(st, s) THEN Raise(st, "AttributeError")
    ELSE WithChild(CacheChild(st, s), s, CacheClear(ChildState(CacheChild(st, s), s)))

ChildKeys == {KA, KB}

DoChildCacheSet == \E key \in ChildKeys, value \in Values :
    CacheCall("child_set", KA, <<key, value>>, ChildCacheSet(VcCall(vc), KA, key, value))

DoChildCacheDel == \E key \in ChildKeys :
    CacheCall("child_del", KA, <<key>>, ChildCacheDel(VcCall(vc), KA, key))

DoChildCacheRenameKey == \E key \in ChildKeys, new_key \in ChildKeys :
    CacheCall("child_rename_key", KA, <<key, new_key>>,
              ChildCacheRenameKey(VcCall(vc), KA, key, new_key))

DoChildCacheClear == CacheCall("child_clear", KA, <<>>, ChildCacheClear(VcCall(vc), KA))

(***************************************************************************)
(* Invocation with a value cache in the context.  The cache is vc; a value *)
(* that a step stores is wrapped by Val.  The WorkflowStep ws holds the    *)
(* workflow and shares its op_meta_info; the workflow's inputs are bound   *)
(* to the inputs of ws, which have no value.  The monitor of an invocation *)
(* can be cancelled while the invocation runs; the body of an operation    *)
(* may look at the monitor and raise Cancellation.                         *)
(***************************************************************************)
Val(v) == [kind |-> "val", v |-> v]

\* a variant of GetValueCache that returns the cache to every node
GetValueCacheAlways(s, n) == TRUE

\* Node._get_value_cache for a context that has a value_cache
GetValueCache(s, n) == s.can_cache[n]

\* the value cache of the context of the steps, and the whole cache after a step used it
ContextCache(st, ctx, ws_id) == IF ctx = "child" THEN ChildState(st, ws_id) ELSE st
WithContextCache(st, ctx, ws_id, cst) == IF ctx = "child" THEN WithChild(st, ws_id, cst) ELSE cst

\* a variant of OpStepInvokeCached that does not look into the cache
OpStepInvokeNoLookup(s, st, ctx, n, return_value, cancelled) ==
    LET cst == ContextCache(st, ctx, s.ws.id)
        cst1 == IF GetValueCache(s, n) THEN CacheSet(cst, s.id[n], Val(return_value)) ELSE cst
    IN  IF \E p \in Range(InputPorts(s, n)) : HasValue(s, p, 0) = "RecursionError"
        THEN [wf |-> Raise(s, "RecursionError"), vc |-> st, called |-> FALSE]
        ELSE IF cancelled
        THEN [wf |-> Raise(s, "Cancellation"), vc |-> st, called |-> TRUE]
        ELSE [wf |-> SetValue(s, NodePort(n, "out", RETURN_OUTPUT_NAME), return_value),
              vc |-> WithContextCache(st, ctx, s.ws.id, cst1),
              called |-> TRUE]

\* OpStepBase._invoke_impl with a value_cache in the context: return_value is what
\* the operation returns if it is called, cancelled whether it raises Cancellation
OpStepInvokeCached(s, st, ctx, n, return_value, cancelled) ==
    LET cst == ContextCache(st, ctx, s.ws.id)
        value_cache == GetValueCache(s, n)
        hit == /\ value_cache
               /\ s.id[n] \in DOMAIN cst.cache.dict
               /\ cst.cache.dict[s.id[n]] # Val(UNDEFINED)
        value == IF hit THEN cst.cache.dict[s.id[n]].v ELSE return_value
        cst1 == IF ~hit /\ value_cache THEN CacheSet(cst, s.id[n], Val(return_value)) ELSE cst
    IN  IF \E p \in Range(InputPorts(s, n)) : HasValue(s, p, 0) = "RecursionError"
        THEN [wf |-> Raise(s, "RecursionError"), vc |-> st, called |-> FALSE]
        ELSE IF ~hit /\ cancelled
        THEN [wf |-> Raise(s, "Cancellation"), vc |-> st, called |-> TRUE]
        ELSE [wf |-> SetValue(s, NodePort(n, "out", RETURN_OUTPUT_NAME), value),
              vc |-> WithContextCache(st, ctx, s.ws.id, cst1),
              called |-> ~hit]

StepInvokeCached(s, st, ctx, n, return_value, cancelled) ==
    IF s.kind[n] = "OpStep" THEN OpStepInvokeCached(s, st, ctx, n, return_value, cancelled)
    ELSE [wf |-> NoOpStepInvoke(s, n), vc |-> st, called |-> FALSE]

\* WorkflowStep._invoke_impl, after the workflow returned: the outputs are copied
TransferOutputs(s) ==
    LET value == Value(s, NodePort(W, "out", RETURN_OUTPUT_NAME), 0)
    IN  IF value = "RecursionError" THEN Raise(s, "RecursionError")
        ELSE [s EXCEPT !.ws.out = value]

\* workflow.invoke(context={'value_cache': vc}, monitor=monitor)
StartInvokeCached ==
    /\ run.pc = "idle"
    /\ run.count < MaxInvokes
    /\ run' = [Idle EXCEPT !.pc = "running", !.todo = InvokeOrder(wf), !.count = run.count + 1,
                           !.ctx = "outer"]
    /\ wf' = Call(wf)
    /\ last' = [op |-> "invoke", a |-> "outer", b |-> None, pre |-> Call(wf)]
    /\ result' = NoResult
    /\ UNCHANGED <<registry, calls, vcVars>>

\* ws.invoke(context={'value_cache': vc}, monitor=monitor), up to the loop of invoke_steps
StartInvokeWorkflowStep ==
    /\ run.pc = "idle"
    /\ run.count < MaxInvokes
    /\ run' = [Idle EXCEPT !.pc = "running", !.todo = InvokeOrder(wf), !.count = run.count + 1,
                           !.ctx = IF GetValueCache(wf, W) THEN "child" ELSE "outer",
                           !.ws = TRUE]
    /\ vc' = IF GetValueCache(wf, W) THEN CacheChild(vc, wf.ws.id) ELSE vc
    /\ wf' = Call(wf)
    /\ last' = [op |-> "invoke", a |-> "ws", b |-> None, pre |-> Call(wf)]
    /\ result' = NoResult
    /\ UNCHANGED <<registry, calls, vlast, vcalls>>

\* one iteration of the loop of invoke_steps: step.invoke(context, monitor.child(1)).
\* vlast keeps the cache as it was before the step.
InvokeStepCached ==
    \E r \in Results, cancelled \in (IF run.canceled THEN BOOLEAN ELSE {FALSE}) :
        LET n == Head(run.todo)
            out == StepInvokeCached(wf, vc, run.ctx, n, r, cancelled)
        IN  /\ run.pc = "running"
            /\ run.ctx # "none"
            /\ run.todo # <<>>
            /\ wf.exc = NoError
            /\ wf' = out.wf
            /\ vc' = out.vc
            /\ vlast' = [op |-> "invoke_step", a |-> n, b |-> r, pre |-> vc]
            /\ run' = [run EXCEPT !.todo = Tail(@), !.invoked = Append(@, n),
                                  !.called = Append(@, out.called)]
            /\ UNCHANGED <<registry, last, calls, result, vcalls>>

\* monitor.cancel(), by whoever holds the monitor, while the invocation runs
Cancel ==
    /\ run.pc = "running"
    /\ run.ctx # "none"
    /\ ~run.canceled
    /\ wf.exc = NoError
    /\ run' = [run EXCEPT !.canceled = TRUE, !.cancel_at = Len(run.invoked),
                          !.saved = ContextCache(vc, run.ctx, wf.ws.id).cache.dict]
    /\ UNCHANGED <<registry, wf, last, calls, result, vcVars>>

\* invoke_steps returns, or an exception of a step leaves it; the WorkflowStep
\* copies the outputs of the workflow
EndInvokeCached ==
    /\ run.pc = "running"
    /\ run.ctx # "none"
    /\ run.todo = <<>> \/ wf.exc # NoError
    /\ run' = [run EXCEPT !.pc = "idle"]
    /\ wf' = IF run.ws /\ wf.exc = NoError THEN TransferOutputs(wf) ELSE wf
    /\ UNCHANGED <<registry, last, calls, result, vcVars>>

(***************************************************************************)
(* ect.core.op: OpRegistration.validate_input_values and the OpRegistry.   *)
(* A Python value is a record of its type and a number, a float stands for *)
(* the number it holds.  The properties of an input are a dict: the keys   *)
(* it has, and their values.  An operation is a callable with a qualified  *)
(* name; two callables can have the same qualified name.  An               *)
(* OpRegistration is an object of its own: serial tells the registrations  *)
(* of one operation apart.                                                 *)
(***************************************************************************)
MaxRegistrations == 3

PyNone == [type |-> "NoneType", v |-> 0]
PyInt(v) == [type |-> "int", v |-> v]
PyFloat(v) == [type |-> "float", v |-> v]
PyStr(v) == [type |-> "str", v |-> v]

IsInstance(value, data_type) == value.type = data_type

IsNumber(value) == value.type \in {"int", "float"}

\* a == b: numbers are equal when they hold the same number
PyEq(a, b) == IF IsNumber(a) /\ IsNumber(b) THEN a.v = b.v ELSE a = b

\* one turn of the loop of validate_input_values: the exception raised, if any
ValidateInputValue(inputs, name, value) ==
    IF name \notin DOMAIN inputs THEN "ValueError"
    ELSE LET input_properties == inputs[name]
             keys == input_properties.keys
             required == IF "required" \in keys THEN input_properties.required ELSE FALSE
             data_type == IF "data_type" \in keys THEN input_properties.data_type ELSE None
             is_float_type == data_type = "float"
                              /\ (IsInstance(value, "float") \/ IsInstance(value, "int"))
             value_set == IF "value_set" \in keys THEN input_properties.value_set ELSE {}
             has_range == "value_range" \in keys
             value_range == input_properties.value_range
         IN  IF value = PyNone THEN (IF required THEN "ValueError" ELSE NoError)
             ELSE IF data_type # None /\ ~(IsInstance(value, data_type) \/ is_float_type)
             THEN "ValueError"
             ELSE IF value_set # {} /\ ~(\E member \in value_set : PyEq(value, member))
             THEN "ValueError"
             ELSE IF has_range /\ ~IsNumber(value) THEN "TypeError"
             ELSE IF has_range /\ ~(value_range[1] <= value.v /\ value.v <= value_range[2])
             THEN "ValueError"
             ELSE NoError

\* a variant of the loop's turn that takes a float only where float is declared
ValidateInputValuesExactType(inputs, input_values) ==
    FoldSeq(LAMBDA st, item :
                LET e == ValidateInputValue(inputs, item[1], item[2])
                    p == inputs[item[1]]
                IN  IF e = NoError /\ item[1] \in DOMAIN inputs /\ item[2] # PyNone
                       /\ "data_type" \in p.keys /\ ~IsInstance(item[2], p.data_type)
                    THEN [st EXCEPT !.exc = "ValueError"]
                    ELSE [st EXCEPT !.exc = e],
            [exc |-> NoError, val |-> None], input_values)

\* input_values: the items of the dict, in its order
ValidateInputValues(inputs, input_values) ==
    FoldSeq(LAMBDA st, item : [st EXCEPT !.exc = ValidateInputValue(inputs, item[1], item[2])],
            [exc |-> NoError, val |-> None], input_values)

NewRegistry == [op_registrations |-> EmptyDict, made |-> 0]

ObjectToQualifiedName(operation) == operation.name

OpRegistration(operation, serial) == [operation |-> operation, serial |-> serial]

\* a variant of add_op that registers the operation in place of the one registered
AddOpReplace(r, operation, fail_if_exists) ==
    LET op_qualified_name == ObjectToQualifiedName(operation)
        op_registration == OpRegistration(operation, r.made + 1)
        added == [op_registrations |-> DictSet(r.op_registrations, op_qualified_name, op_registration),
                  made |-> r.made + 1]
    IN  IF op_qualified_name \in DOMAIN r.op_registrations /\ fail_if_exists
        THEN [registry |-> r, exc |-> "ValueError", val |-> None]
        ELSE [registry |-> added, exc |-> NoError, val |-> op_registration]

AddOp(r, operation, fail_if_exists) ==
    LET op_qualified_name == ObjectToQualifiedName(operation)
        op_registration == OpRegistration(operation, r.made + 1)
    IN  IF op_qualified_name \in DOMAIN r.op_registrations
        THEN IF fail_if_exists THEN [registry |-> r, exc |-> "ValueError", val |-> None]
             ELSE [registry |-> r, exc |-> NoError, val |-> r.op_registrations[op_qualified_name]]
        ELSE [registry |-> [op_registrations |->
                                DictSet(r.op_registrations, op_qualified_name, op_registration),
                            made |-> r.made + 1],
              exc |-> NoError, val |-> op_registration]

\* operation: a qualified name
RemoveOp(r, op_qualified_name, fail_if_not_exists) ==
    IF op_qualified_name \notin DOMAIN r.op_registrations
    THEN [registry |-> r, exc |-> IF fail_if_not_exists THEN "ValueError" ELSE NoError, val |-> None]
    ELSE [registry |-> [r EXCEPT !.op_registrations = DictPop(@, op_qualified_name)],
          exc |-> NoError, val |-> r.op_registrations[op_qualified_name]]

\* the operations, the declared input x with its properties, and the input values
OpF == <<"f">>
OpG == <<"g">>
Operations == {[name |-> OpF, obj |-> 1], [name |-> OpF, obj |-> 2], [name |-> OpG, obj |-> 1]}
Y == <<"y">>
DataTypes == {"int", "float", "str"}
ValueSets == {{}, {PyInt(1), PyInt(2)}}
ValueRanges == {<<1, 2>>}
\* a key that the dict does not have has no value: the record holds a filler for it
InputProperties ==
    {p \in [keys : SUBSET {"required", "data_type", "value_set", "value_range"},
            required : BOOLEAN, data_type : DataTypes, value_set : ValueSets,
            value_range : ValueRanges] :
        /\ "required" \notin p.keys => ~p.required
        /\ "data_type" \notin p.keys => p.data_type = "int"
        /\ "value_set" \notin p.keys => p.value_set = {}}
PyValues == {PyNone, PyInt(1), PyInt(3), PyFloat(1), PyFloat(3), PyStr(1)}
InputValueDicts ==
    {<<<<X, v>>>> : v \in PyValues}
    \cup {<<<<Y, PyInt(1)>>>>, <<<<X, PyInt(1)>>, <<Y, PyInt(1)>>>>, <<>>}

OpCall(op, a, b, r) ==
    /\ run.pc = "idle"
    /\ registry' = r.registry
    /\ result' = [exc |-> r.exc, val |-> r.val]
    /\ last' = [op |-> op, a |-> a, b |-> b, pre |-> registry]
    /\ UNCHANGED <<wf, calls, run, vcVars>>

DoValidateInputValues == \E p \in InputProperties, input_values \in InputValueDicts :
    OpCall("validate_input_values", p, input_values,
           [registry |-> registry] @@ ValidateInputValues(X :> p, input_values))

DoAddOp == \E operation \in Operations, fail_if_exists \in BOOLEAN :
    /\ registry.made < MaxRegistrations
    /\ OpCall("add_op", operation, fail_if_exists, AddOp(registry, operation, fail_if_exists))

DoRemoveOp == \E name \in {OpF, OpG}, fail_if_not_exists \in BOOLEAN :
    OpCall("remove_op", name, fail_if_not_exists, RemoveOp(registry, name, fail_if_not_exists))

(***************************************************************************)
(* Node.call of the workflow.  op_meta_info is an OpMetaInfo of            *)
(* cate.util.opmetainf: the properties of the input x are the field        *)
(* input_properties of the object graph, a dict with the keys in keys.     *)
(* input_values is a dict from names to values.                            *)
(***************************************************************************)
\* OpMetaInfo.set_default_input_values: a missing input gets its default_value
SetDefaultInputValues(properties, input_values) ==
    IF X \in DOMAIN input_values THEN input_values
    ELSE DictSet(input_values, X,
                 IF "default_value" \in properties.keys THEN properties.default_value ELSE None)

\* OpMetaInfo.validate_input_values: the exception raised, if any
OpMetaInfoValidateInputValues(properties, input_values) ==
    IF \E name \in DOMAIN input_values : name # X THEN "ValueError"
    ELSE IF X \notin DOMAIN input_values THEN NoError
    ELSE IF input_values[X] = None
    THEN (IF "required" \in properties.keys /\ properties.required THEN "ValueError" ELSE NoError)
    ELSE IF "value_set" \in properties.keys /\ input_values[X] \notin properties.value_set
    THEN "ValueError"
    ELSE NoError

SetInputValues(s, n, input_values) ==
    FoldSeq(LAMBDA st, node_input :
                IF node_input.name \in DOMAIN input_values
                THEN SetValue(st, node_input, input_values[node_input.name])
                ELSE Raise(st, "KeyError"),
            s, InputPorts(s, n))

\* a variant of call that writes the input ports before it validates
NodeCallWriteFirst(s, n, input_values) ==
    LET with_defaults == SetDefaultInputValues(s.input_properties, input_values)
        e == OpMetaInfoValidateInputValues(s.input_properties, with_defaults)
        s1 == SetInputValues(s, n, with_defaults)
    IN  IF s1.exc # NoError THEN s1
        ELSE IF e # NoError THEN Raise(s1, e)
        ELSE s1

\* call, up to self.invoke(...)
NodeCall(s, n, input_values) ==
    LET with_defaults == SetDefaultInputValues(s.input_properties, input_values)
        e == OpMetaInfoValidateInputValues(s.input_properties, with_defaults)
    IN  IF e # NoError THEN Raise(s, e)
        ELSE SetInputValues(s, n, with_defaults)

\* get_output_value of a node without named outputs
GetOutputValue(s, n) == Value(s, NodePort(n, "out", RETURN_OUTPUT_NAME), 0)

CallValues == {None, "v1", "v2"}
CallProperties ==
    {p \in [keys : SUBSET {"required", "default_value", "value_set"},
            required : BOOLEAN, default_value : {None, "v1"}, value_set : {{"v1"}}] :
        /\ "required" \notin p.keys => ~p.required
        /\ "default_value" \notin p.keys => p.default_value = None}
CallInputValues ==
    {EmptyDict} \cup {X :> v : v \in CallValues} \cup {Y :> "v1"}

\* call: self.invoke runs the steps one by one (InvokeStep), EndCall returns
StartCall == \E input_values \in CallInputValues :
    LET s == NodeCall(Call(wf), W, input_values)
    IN  /\ run.pc = "idle"
        /\ run.count < MaxInvokes
        /\ wf' = s
        /\ last' = [op |-> "call", a |-> W, b |-> input_values, pre |-> Call(wf)]
        /\ run' = IF s.exc = NoError
                  THEN [Idle EXCEPT !.pc = "running", !.todo = InvokeOrder(s),
                                    !.count = run.count + 1]
                  ELSE [Idle EXCEPT !.count = run.count + 1]
        /\ result' = [exc |-> s.exc, val |-> None]
        /\ UNCHANGED <<calls, vcVars, registry>>

EndCall ==
    /\ run.pc = "running"
    /\ run.ctx = "none"
    /\ run.todo = <<>> \/ wf.exc # NoError
    /\ run' = [run EXCEPT !.pc = "idle"]
    /\ result' = [exc |-> wf.exc,
                  val |-> IF wf.exc = NoError THEN GetOutputValue(wf, W) ELSE None]
    /\ UNCHANGED <<wf, last, calls, vcVars, registry>>

(***************************************************************************)
(* Specifications                                                          *)
(***************************************************************************)
InitCommon ==
    /\ last = NoCall
    /\ calls = 0
    /\ run = Idle
    /\ result = NoResult
    /\ vc = EmptyCache
    /\ vlast = NoCall
    /\ vcalls = 0
    /\ registry = NewRegistry

Init ==
    /\ wf \in {NewWorkflow(ids) : ids \in InitIds}
    /\ InitCommon

\* the object graph is built and changed
NextWf == DoSetSource \/ DoSetValue \/ DoSetId \/ DoAddStep \/ DoRemoveStep

SpecWf == Init /\ [][NextWf]_vars

\* ... and the workflow is invoked
NextRun == NextWf \/ StartInvoke \/ InvokeStep \/ EndInvoke

SpecRun == Init /\ [][NextRun]_vars

\* ... and the workflow is written to JSON and read back
NextJson == NextWf \/ DoSetPersistent \/ DoRoundTrip

SpecJson == Init /\ [][NextJson]_vars

\* the step graph: an edge from n to the node owning the source of one of n's input ports
Edge(s, n, m) ==
    \E p \in Range(InputPorts(s, n)) : s.port[p].source # NoPort /\ s.port[p].source.node = m

RECURSIVE ReachableFrom(_, _)
ReachableFrom(s, set) ==
    LET next == set \cup {m \in Nodes : \E n \in set : Edge(s, n, m)}
    IN  IF next = set THEN set ELSE ReachableFrom(s, next)

\* the nodes reached from n by one or more edges
Successors(s, n) == ReachableFrom(s, {m \in Nodes : Edge(s, n, m)})

Acyclic(s) == \A n \in Nodes : n \notin Successors(s, n)

\* Sorting: the steps are constructed and wired to each other without a cycle,
\* then added to and removed from the workflow, and the workflow's steps are sorted.
SortSources == {NodePort("S1", "out", RETURN_OUTPUT_NAME), NodePort("S2", "out", RETURN_OUTPUT_NAME),
                NodePort("S3", "out", X), NodePort(W, "in", X), NoPort}

Wired(s, f) ==
    FoldSeq(LAMBDA st, n : SetSource(st, NodePort(n, "in", X), f[n]), s, <<"S1", "S2", "S3">>)

InitSort ==
    /\ wf \in {g \in {Wired(NewWorkflow(ids), f) : ids \in InitIds, f \in [Steps -> SortSources]} :
                  Acyclic(g)}
    /\ InitCommon

NextSort == DoAddStep \/ DoRemoveStep \/ DoSortedSteps

SpecSort == InitSort /\ [][NextSort]_vars

\* Decoding and resolution of single ports.  S3 is constructed with the one
\* output x or with the two outputs x and "return".
PortTargets == {NodePort("S1", "in", X), NodePort(W, "out", RETURN_OUTPUT_NAME)}
PortSources == {NodePort("S3", "out", X), NodePort(W, "in", X), NoPort}
SourceTexts == {A, B, QualifiedName, B \o <<Dot>> \o X, <<Dot>> \o X}
PortJsons ==
    {[is_str |-> TRUE, keys |-> {}, source |-> t, value |-> None] : t \in SourceTexts}
    \cup {[is_str |-> FALSE, keys |-> {"value"}, source |-> EmptyStr, value |-> "v1"],
          [is_str |-> FALSE, keys |-> {"source", "value"}, source |-> B, value |-> "v1"]}

DoBind == \E p \in PortTargets, q \in PortSources :
    Mutate("set_source", p, q, SetSource(Call(wf), p, q))

DoFromJson == \E p \in PortTargets, pj \in PortJsons :
    Mutate("from_json", p, pj, PortFromJson(Call(wf), p, pj))

DoUpdateSource == \E p \in PortTargets :
    Mutate("update_source", p, None, UpdateSource(Call(wf), p))

TwoOutputs(s) == [s EXCEPT !.outputs["S3"] = <<X, RETURN_OUTPUT_NAME>>]

InitPort ==
    /\ wf \in {NewWorkflow(ids) : ids \in InitIds} \cup {TwoOutputs(NewWorkflow(ids)) : ids \in InitIds}
    /\ InitCommon

NextPort == DoBind \/ DoSetValue \/ DoSetId \/ DoAddStep \/ DoFromJson \/ DoUpdateSource

SpecPort == InitPort /\ [][NextPort]_vars

\* Resolution of a whole workflow: the steps are constructed and wired, added
\* and renamed, and the workflow resolves its references.  update_sources
\* changes no step list and no id and is counted by no bound.
DoUpdateSources ==
    /\ run.pc = "idle"
    /\ wf' = WorkflowUpdateSources(Call(wf))
    /\ last' = [op |-> "update_sources", a |-> None, b |-> None, pre |-> Call(wf)]
    /\ result' = NoResult
    /\ UNCHANGED <<registry, calls, run, vcVars>>

NextResolve == DoAddStep \/ DoSetId \/ DoUpdateSources

SpecResolve == InitSort /\ [][NextResolve]_vars

\* Ids: steps are added without can_exist, renamed and removed by id, in
\* sequences of up to MaxIdCalls calls.
IdCall(op, a, b, s) ==
    /\ run.pc = "idle"
    /\ calls < MaxIdCalls
    /\ calls' = calls + 1
    /\ wf' = s
    /\ last' = [op |-> op, a |-> a, b |-> b, pre |-> Call(wf)]
    /\ result' = NoResult
    /\ UNCHANGED <<registry, run, vcVars>>

DoAddNewStep == \E n \in Steps :
    IdCall("add_step", n, FALSE, AddStep(Call(wf), n, FALSE))

DoRenameStep == \E n \in Steps, i \in StepIds :
    IdCall("set_id", n, i, SetId(Call(wf), n, i))

DoRemoveStepById == \E i \in StepIds :
    IdCall("remove_step", i, FALSE, RemoveStep(Call(wf), i, FALSE))

NextIds == DoAddNewStep \/ DoRenameStep \/ DoRemoveStepById

SpecIds == Init /\ [][NextIds]_vars

\* the ValueCache is used
NextVc == DoCacheSet \/ DoCacheDel \/ DoCachePop \/ DoCacheRenameKey \/ DoCacheChild \/ DoCacheClear

SpecVc == Init /\ [][NextVc]_vars

\* the ValueCache gets entries and children, and its child cache for the key "a" is written to
NextVcChild ==
    \/ DoCacheSet \/ DoCacheDel \/ DoCacheChild
    \/ DoChildCacheSet \/ DoChildCacheDel \/ DoChildCacheRenameKey \/ DoChildCacheClear

SpecVcChild == Init /\ [][NextVcChild]_vars

\* Caching: a workflow of one or two steps, each operation with can_cache or without,
\* is invoked with a value cache, directly or by its WorkflowStep, and cancelled.
CacheSteps == {<<"S1">>, <<"S1", "S3">>, <<"S3", "S1">>, <<"S1", "S2">>}
CacheIds == [n \in Nodes |-> IF n = W THEN QualifiedName ELSE IF n = "S1" THEN A ELSE B]
CanCacheFlags == {f \in [Nodes -> BOOLEAN] : f["S2"] /\ f["S3"]}
Built(seq, f) ==
    [FoldSeq(LAMBDA st, n : AddStep(st, n, FALSE), NewWorkflow(CacheIds), seq)
        EXCEPT !.can_cache = f]

InitCache ==
    /\ wf \in {Built(seq, f) : seq \in CacheSteps, f \in CanCacheFlags}
    /\ InitCommon

NextCache ==
    StartInvokeCached \/ StartInvokeWorkflowStep \/ InvokeStepCached \/ Cancel \/ EndInvokeCached

SpecCache == InitCache /\ [][NextCache]_vars

\* Input values are validated against the properties of a declared input;
\* operations are registered and removed.
NextOp == DoValidateInputValues

SpecOp == Init /\ [][NextOp]_vars

NextRegistry == DoAddOp \/ DoRemoveOp

SpecRegistry == Init /\ [][NextRegistry]_vars

\* the workflow with the steps of seq: the first step takes the input x of the
\* workflow, the workflow returns the output of the first step
CallBuilt(seq, properties) ==
    LET s1 == Built(seq, [n \in Nodes |-> TRUE])
        s2 == SetSource(s1, NodePort(seq[1], "in", X), NodePort(W, "in", X))
        s3 == SetSource(s2, NodePort(W, "out", RETURN_OUTPUT_NAME),
                        IF seq[1] = "S3" THEN NodePort("S3", "out", X)
                        ELSE NodePort(seq[1], "out", RETURN_OUTPUT_NAME))
    IN  s3 @@ [input_properties |-> properties]

\* The workflow is built, and called with input values.
InitCall ==
    /\ wf \in {CallBuilt(seq, p) : seq \in CacheSteps, p \in CallProperties}
    /\ InitCommon

NextCall == StartCall \/ InvokeStep \/ EndCall

SpecCall == InitCall /\ [][NextCall]_vars

\* Resolution in a tree: the workflow has the steps S1, the WorkflowStep S2 that
\* holds a workflow of its own with one step, and S3; the workflow has the
\* output "return" or x, S3 the output x or x and "return".  Ports are bound,
\* decoded from reference texts, resolved, and written to JSON and read back.
N == <<"n">>
C == <<"c">>
Z == <<"z">>
TreeNodeIds == [n \in Nodes |-> IF n = W THEN QualifiedName ELSE IF n = "S1" THEN A
                                ELSE IF n = "S2" THEN N ELSE B]

\* WorkflowStep(workflow, resource, node_id): the workflow held, its id and the ids of its steps
HeldWorkflow == [id |-> <<"i">>, steps |-> <<C>>]
NoWorkflow == [id |-> EmptyStr, steps |-> <<>>]

TreeBuilt(seq, w_outputs, s3_outputs) ==
    LET s0 == [NewWorkflow(TreeNodeIds) EXCEPT !.kind["S2"] = "WorkflowStep",
                                               !.outputs[W] = w_outputs,
                                               !.outputs["S3"] = s3_outputs]
        s1 == FoldSeq(LAMBDA st, n : AddStep(st, n, FALSE), s0, seq)
    IN  s1 @@ [workflow |-> [n \in Steps |-> IF n = "S2" THEN HeldWorkflow ELSE NoWorkflow]]

TreeSteps == {<<"S1", "S2", "S3">>, <<"S1", "S2">>}
TreeTargets == {NodePort("S1", "in", X), NodePort("S3", "in", X)}
TreeSources == {NodePort("S3", "in", X), NodePort("S3", "out", X),
                NodePort("S3", "out", RETURN_OUTPUT_NAME),
                NodePort(W, "in", X), NodePort(W, "out", X),
                NodePort("S2", "out", RETURN_OUTPUT_NAME)}
TreeTexts == {QualifiedName \o <<Dot>> \o X, B \o <<Dot>> \o X, B, N, C, C \o <<Dot>> \o X,
              <<Dot>> \o X, <<Dot>> \o RETURN_OUTPUT_NAME, <<Dot>> \o Z}

\* port.from_json(port.to_json()); port.update_source()
Reresolve(s, p) ==
    LET s1 == PortFromJson(s, p, ToJson(s, p, FALSE))
    IN  IF s1.exc # NoError THEN s1 ELSE UpdateSource(s1, p)

DoTreeBind == \E p \in TreeTargets, q \in TreeSources :
    /\ q.name \in Range(IF q.side = "in" THEN wf.inputs[q.node] ELSE wf.outputs[q.node])
    /\ Mutate("set_source", p, q, SetSource(Call(wf), p, q))

DoTreeFromJson == \E p \in TreeTargets, text \in TreeTexts :
    Mutate("from_json", p, text,
           PortFromJson(Call(wf), p, [is_str |-> TRUE, keys |-> {}, source |-> text, value |-> None]))

DoTreeUpdateSource == \E p \in TreeTargets :
    Mutate("update_source", p, None, UpdateSource(Call(wf), p))

DoReresolve == \E p \in TreeTargets :
    Mutate("reresolve", p, None, Reresolve(Call(wf), p))

InitTree ==
    /\ wf \in {TreeBuilt(seq, w_outputs, s3_outputs) :
                  seq \in TreeSteps,
                  w_outputs \in {<<RETURN_OUTPUT_NAME>>, <<X>>},
                  s3_outputs \in {<<X>>, <<X, RETURN_OUTPUT_NAME>>}}
    /\ InitCommon

NextTree == DoTreeBind \/ DoTreeFromJson \/ DoTreeUpdateSource \/ DoReresolve

SpecTree == InitTree /\ [][NextTree]_vars

\* Decoding: ports are bound and given values, and decoded from every form of
\* port JSON: reference texts with and without node id and port name, with
\* nothing before or after the dot, with two dots; dicts with source, value,
\* both and neither.
DecodeTexts == {A, B \o <<Dot>> \o X, <<Dot>> \o X, EmptyStr, B \o <<Dot>>, <<Dot>>,
                A \o <<Dot>> \o B \o <<Dot>> \o X}
DecodeJsons ==
    {[is_str |-> str, keys |-> IF str THEN {} ELSE {"source"}, source |-> t, value |-> None] :
        str \in BOOLEAN, t \in DecodeTexts}
    \cup {[is_str |-> FALSE, keys |-> {"value"}, source |-> EmptyStr, value |-> v] : v \in {None, "v1"}}
    \cup {[is_str |-> FALSE, keys |-> {"source", "value"}, source |-> B, value |-> "v1"],
          EmptyJsonDict}

DoDecode == \E p \in PortTargets, pj \in DecodeJsons :
    Mutate("from_json", p, pj, PortFromJson(Call(wf), p, pj))

NextDecode == DoBind \/ DoSetValue \/ DoDecode

SpecDecode == Init /\ [][NextDecode]_vars

\* Encoding: ports are bound and given values, outputs too (as an invoked step
\* does), and written to JSON.
EncodePorts == {NodePort("S1", "in", X), NodePort("S1", "out", RETURN_OUTPUT_NAME),
                NodePort("S3", "in", X), NodePort("S3", "out", X),
                NodePort(W, "in", X), NodePort(W, "out", RETURN_OUTPUT_NAME)}

DoEncodeSetValue == \E p \in EncodePorts, v \in {None, "v1"} :
    Mutate("set_value", p, v, SetValue(Call(wf), p, v))

DoToJson == \E p \in EncodePorts, force_dict \in BOOLEAN :
    /\ run.pc = "idle"
    /\ result' = [exc |-> NoError, val |-> ToJson(wf, p, force_dict)]
    /\ last' = [op |-> "to_json", a |-> p, b |-> force_dict, pre |-> Call(wf)]
    /\ UNCHANGED <<wf, calls, run, vcVars, registry>>

NextEncode == DoSetSource \/ DoEncodeSetValue \/ DoToJson

SpecEncode == Init /\ [][NextEncode]_vars

\* The object graph is built and changed, and the steps needed for one step are asked for.
NextSteps == NextWf \/ DoFindStepsToCompute

SpecSteps == Init /\ [][NextSteps]_vars

\* Distances: the steps are constructed and wired to each other without a cycle,
\* added to the workflow, and the distance between two nodes is asked for.
DoMaxDistanceTo == \E n \in Nodes, other_node \in Nodes :
    LET r == MaxDistanceTo(wf, n, other_node, 0)
    IN  /\ run.pc = "idle"
        /\ result' = [exc |-> r.exc, val |-> r.d]
        /\ last' = [op |-> "max_distance_to", a |-> n, b |-> other_node, pre |-> Call(wf)]
        /\ UNCHANGED <<registry, wf, calls, run, vcVars>>

NextDist == DoAddStep \/ DoMaxDistanceTo

SpecDist == InitSort /\ [][NextDist]_vars

\* the ValueCache gets entries and children, its child cache for the key "a" gets
\* entries, and the cache is cleared
NextVcClose == DoCacheSet \/ DoCacheChild \/ DoChildCacheSet \/ DoCacheClear

SpecVcClose == Init /\ [][NextVcClose]_vars

\* Invocation with a cache that has entries: between the invocations a value is stored
\* in the cache under the id of the step S1, for the invocations to come.
DoCacheStore == \E r \in Results :
    /\ run.pc = "idle"
    /\ run.count < MaxInvokes
    /\ CacheCall("set", A, Val(r), CacheSet(VcCall(vc), A, Val(r)))

NextStored ==
    DoCacheStore \/ StartInvokeCached \/ StartInvokeWorkflowStep \/ InvokeStepCached \/ EndInvokeCached

SpecStored == InitCache /\ [][NextStored]_vars

\* steps are added, with can_exist and without, and removed
NextParent == DoAddStep \/ DoRemoveStep

SpecParent == Init /\ [][NextParent]_vars

\* ports are bound, steps are added and renamed, and the references are resolved
NextRefs == DoSetSource \/ DoUpdateSources \/ DoAddStep \/ DoSetId

SpecRefs == Init /\ [][NextRefs]_vars

\* Termination: ports are bound, the input of S3 among them, steps are added, references
\* are resolved, and the values of ports, the sorted steps and the steps to compute are read.
TermTargets == {NodePort("S1", "in", X), NodePort("S3", "in", X), NodePort("S3", "out", X)}
TermSources == {NodePort("S1", "out", RETURN_OUTPUT_NAME), NodePort("S3", "out", X),
                NodePort("S3", "in", X), NoPort}

DoBindAny == \E p \in TermTargets, q \in TermSources :
    Mutate("set_source", p, q, SetSource(Call(wf), p, q))

DoReadValue == \E p \in TermTargets :
    LET value == Value(wf, p, 0)
    IN  /\ run.pc = "idle"
        /\ result' = IF value = "RecursionError" THEN [exc |-> "RecursionError", val |-> None]
                     ELSE [exc |-> NoError, val |-> value]
        /\ last' = [op |-> "value", a |-> p, b |-> None, pre |-> Call(wf)]
        /\ UNCHANGED <<registry, wf, calls, run, vcVars>>

DoReadHasValue == \E p \in TermTargets :
    LET has_value == HasValue(wf, p, 0)
    IN  /\ run.pc = "idle"
        /\ result' = IF has_value = "RecursionError" THEN [exc |-> "RecursionError", val |-> None]
                     ELSE [exc |-> NoError, val |-> has_value]
        /\ last' = [op |-> "has_value", a |-> p, b |-> None, pre |-> Call(wf)]
        /\ UNCHANGED <<registry, wf, calls, run, vcVars>>

NextTerm ==
    \/ DoBindAny \/ DoAddStep \/ DoUpdateSources
    \/ DoReadValue \/ DoReadHasValue \/ DoSortedSteps \/ DoFindStepsToCompute

SpecTerm == Init /\ [][NextTerm]_vars

(***************************************************************************)
(* Vocabulary of the properties                                            *)
(***************************************************************************)
\* the ports of the workflow and of the steps in its step list
TreePorts(s) == PortsOf(s, W) \cup UNION {PortsOf(s, n) : n \in Range(s.steps)}

\* the ports of the tree of the root of node n
RootTreePorts(s, n) == IF RootNode(s, n) = W THEN TreePorts(s) ELSE PortsOf(s, RootNode(s, n))

Returned == wf.exc = NoError

(***************************************************************************)
(* C3: after set_id(new_id) with a non-empty id different from the old id, *)
(* every port of the root's tree that was bound to a port of the renamed   *)
(* node is bound to that same port, and the containing workflow finds the  *)
(* node under the new id and not under the old id.                         *)
(***************************************************************************)
C3_SetIdKeepsBindings ==
    (last.op = "set_id" /\ last.b # EmptyStr /\ last.b # last.pre.id[last.a]) =>
        /\ \A p \in RootTreePorts(last.pre, last.a) :
              last.pre.port[p].source.node = last.a => wf.port[p].source = last.pre.port[p].source
        /\ (last.a \in Steps /\ last.pre.parent[last.a] = W) =>
              /\ WorkflowFindNode(wf, last.b) = last.a
              /\ WorkflowFindNode(wf, last.pre.id[last.a]) # last.a

(***************************************************************************)
(* C4: no two direct child steps of the workflow have the same id.         *)
(***************************************************************************)
C4_UniqueStepIds ==
    \A i, j \in 1..Len(wf.steps) : i # j => wf.id[wf.steps[i]] # wf.id[wf.steps[j]]

(***************************************************************************)
(* C5: after add_step(new, can_exist=true) has replaced a step with the    *)
(* same id, no port of the workflow or of its steps has a source that is a *)
(* port of the replaced step.                                              *)
(***************************************************************************)
Replaced ==
    /\ last.op = "add_step" /\ Returned
    /\ wf.ret # None /\ wf.ret # last.a

C5_NoSourceOnReplacedStep ==
    Replaced => \A p \in TreePorts(wf) : wf.port[p].source.node # wf.ret

C5_Witness ==
    /\ Replaced
    /\ \E p \in TreePorts(wf) : last.pre.port[p].source.node = wf.ret

(***************************************************************************)
(* C6: after remove_step(id) has removed a step, every port of the         *)
(* workflow and of its remaining steps that was bound to a port of the     *)
(* removed step has no source, and the removed step has no parent.         *)
(* The claim as stated: such a port is undefined (has_value is false).     *)
(* The code: such a port holds the literal None (has_value is true).       *)
(***************************************************************************)
Removed == last.op = "remove_step" /\ Returned /\ wf.ret # None

WasBoundToRemoved(p) == p \in TreePorts(wf) /\ last.pre.port[p].source.node = wf.ret

C6_RemovedSourcesUndefined ==
    Removed =>
        /\ \A p \in AllPorts : WasBoundToRemoved(p) =>
              wf.port[p].source = NoPort /\ HasValue(wf, p, 0) = "False"
        /\ wf.parent[wf.ret] = None

C6_RemovedSourcesNone ==
    Removed =>
        /\ \A p \in AllPorts : WasBoundToRemoved(p) =>
              /\ wf.port[p] = [source |-> NoPort, source_ref |-> NoRef, value |-> None]
              /\ HasValue(wf, p, 0) = "True"
              /\ Value(wf, p, 0) = None
        /\ wf.parent[wf.ret] = None

C6_Witness == Removed /\ \E p \in AllPorts : WasBoundToRemoved(p)

(***************************************************************************)
(* C7: the step graph has no cycle.                                        *)
(***************************************************************************)
C7_Acyclic == Acyclic(wf)

(***************************************************************************)
(* C1: during Workflow.invoke no step is invoked before every step of the  *)
(* workflow that it requires has been invoked.                             *)
(***************************************************************************)
RequiredSteps(s, n) == (Successors(s, n) \cap Range(s.steps)) \ {n}

C1_InvokedAfterRequired ==
    \A i \in 1..Len(run.invoked) :
        \A t \in RequiredSteps(wf, run.invoked[i]) :
            \E j \in 1..(i-1) : run.invoked[j] = t

(***************************************************************************)
(* C2: sorted_steps returns a permutation of the workflow's steps in which *)
(* every step comes after each step it requires, and in which two steps    *)
(* with the same maximum distance keep their insertion order.              *)
(***************************************************************************)
Count(seq, x) == Cardinality({i \in 1..Len(seq) : seq[i] = x})

StepMaxDist(s, n) == SortMaxDist(s, s.steps, IndexOf(s.steps, n)).d

C2_SortedStepsTopological ==
    last.op = "sorted_steps" =>
        /\ result.exc = NoError
        /\ \A n \in Steps : Count(result.val, n) = Count(wf.steps, n)
        /\ \A i, j \in 1..Len(result.val) :
              Requires(wf, result.val[i], result.val[j]) => j < i
        /\ \A i, j \in 1..Len(result.val) :
              (i < j /\ StepMaxDist(wf, result.val[i]) = StepMaxDist(wf, result.val[j])) =>
                  IndexOf(wf.steps, result.val[i]) <= IndexOf(wf.steps, result.val[j])

(***************************************************************************)
(* C8: for a workflow whose steps are distinct objects with distinct ids   *)
(* and whose bound ports are bound to ports of the workflow or of its      *)
(* steps, from_json_dict(to_json_dict(W)) returns a workflow with the same *)
(* step ids in the same order, the same step kinds and persistent flags,   *)
(* the same port bindings and the same literal input values.               *)
(***************************************************************************)
SelfContained(s) ==
    /\ \A i, j \in 1..Len(s.steps) : i # j => s.id[s.steps[i]] # s.id[s.steps[j]]
    /\ \A p \in TreePorts(s) :
          s.port[p].source # NoPort => s.port[p].source.node \in {W} \cup Range(s.steps)

C8_JsonRoundTrip ==
    (last.op = "round_trip" /\ SelfContained(wf)) =>
        /\ result.exc = NoError
        /\ Len(result.val.steps) = Len(wf.steps)
        /\ \A i \in 1..Len(wf.steps) :
              /\ result.val.id[result.val.steps[i]] = wf.id[wf.steps[i]]
              /\ result.val.kind[result.val.steps[i]] = wf.kind[wf.steps[i]]
              /\ result.val.persistent[result.val.steps[i]] = wf.persistent[wf.steps[i]]
        /\ \A p \in TreePorts(wf) :
              /\ result.val.port[p].source = wf.port[p].source
              /\ (p.side = "in" /\ IsValue(wf, p)) => result.val.port[p].value = wf.port[p].value

C10_NewKeyFreshId ==
    (vlast.op = "set" /\ vlast.a \notin DOMAIN vlast.pre.cache.dict) =>
        /\ vc.cache.id_infos[vlast.a][2] = 0
        /\ vc.cache.id_infos[vlast.a][1] > vlast.pre.cache.last_id

(***************************************************************************)
(* C17: binding a port to itself (port.source = port) is rejected with an  *)
(* error and leaves the port's source, source reference and literal value  *)
(* as they were before the call.                                           *)
(***************************************************************************)
C17_SelfBindingRejected ==
    (last.op = "set_source" /\ last.a = last.b)
        => /\ wf.exc = "ValueError"
           /\ wf.port[last.a] = last.pre.port[last.a]

\* a port that was bound to another port is asked to be its own source
C17_Witness ==
    /\ last.op = "set_source" /\ last.a = last.b
    /\ last.pre.port[last.a].source # NoPort

(***************************************************************************)
(* C16: in every state reached by set_value, set_source, from_json,        *)
(* update_source and update_source_node_id a port never holds both a       *)
(* source and a literal value: after set_value the source and the source   *)
(* reference are nil, after set_source the literal is undefined.           *)
(***************************************************************************)
C16_SourceOrLiteral ==
    /\ \A p \in AllPorts :
          (wf.port[p].source # NoPort \/ wf.port[p].source_ref # NoRef)
              => wf.port[p].value = UNDEFINED
    /\ last.op = "set_value"
          => wf.port[last.a].source = NoPort /\ wf.port[last.a].source_ref = NoRef
    /\ (last.op = "set_source" /\ Returned) => wf.port[last.a].value = UNDEFINED

\* a literal is assigned to a port that had a source
C16_Witness ==
    /\ last.op = "set_value"
    /\ last.pre.port[last.a].source # NoPort

\* the node that the reference of port p names: the root of p's node or a node it finds
ReferredNode(s, p) ==
    LET ref == s.port[p].source_ref
        root_node == RootNode(s, p.node)
    IN  IF s.id[root_node] = ref.node_id THEN root_node ELSE FindNode(s, root_node, ref.node_id)

\* update_source was called on a port whose reference names a node and no port
NodeOnly ==
    /\ last.op = "update_source"
    /\ last.pre.port[last.a].source_ref # NoRef
    /\ last.pre.port[last.a].source_ref.node_id # NoneStr
    /\ last.pre.port[last.a].source_ref.port_name = NoneStr
    /\ ReferredNode(last.pre, last.a) # None

OnlyOutput(s, n) == NodePort(n, "out", s.outputs[n][1])

(***************************************************************************)
(* C18: resolving a source reference that names only a node id binds the   *)
(* port to that node's output when the node has exactly one output port,   *)
(* and fails with an error when the node has two or more output ports.     *)
(***************************************************************************)
C18_NodeOnlyReference ==
    NodeOnly =>
        LET node == ReferredNode(last.pre, last.a)
        IN  /\ Len(last.pre.outputs[node]) = 1
                  => Returned /\ wf.port[last.a].source = OnlyOutput(last.pre, node)
            /\ Len(last.pre.outputs[node]) >= 2 => wf.exc = "ValueError"

(***************************************************************************)
(* C18, amended: resolving a source reference that names only a node id    *)
(* binds the port to that node's output when the node has exactly one      *)
(* output port and that output is not the port itself; it fails with an    *)
(* error and leaves the port as it was when the single output is the port  *)
(* itself or when the node has two or more output ports.                   *)
(***************************************************************************)
C18_NodeOnlyReferenceNotSelf ==
    NodeOnly =>
        LET node == ReferredNode(last.pre, last.a)
            n_outputs == Len(last.pre.outputs[node])
        IN  /\ (n_outputs = 1 /\ OnlyOutput(last.pre, node) # last.a)
                  => Returned /\ wf.port[last.a].source = OnlyOutput(last.pre, node)
            /\ (n_outputs >= 2 \/ (n_outputs = 1 /\ OnlyOutput(last.pre, node) = last.a))
                  => wf.exc = "ValueError" /\ wf.port = last.pre.port

\* a reference to a step with two outputs was resolved
C18_Witness ==
    /\ NodeOnly
    /\ Len(last.pre.outputs[ReferredNode(last.pre, last.a)]) = 2
    /\ ReferredNode(last.pre, last.a) \in Range(wf.steps)
\* the nodes of the workflow's tree
TreeNodes(s) == {W} \cup Range(s.steps)

\* the reference of port p names a node id that no node of the tree has
NamesNoNode(s, p) ==
    /\ s.port[p].source_ref # NoRef
    /\ s.port[p].source_ref.node_id # NoneStr
    /\ \A n \in TreeNodes(s) : s.id[n] # s.port[p].source_ref.node_id

(***************************************************************************)
(* C19: when update_sources() on a workflow returns without error, every   *)
(* port of the workflow and of its steps that carried a source reference   *)
(* is bound to a port of a node that exists in the workflow's tree; a      *)
(* reference whose node does not exist makes update_sources() raise.       *)
(***************************************************************************)
C19_UpdateSourcesResolves ==
    last.op = "update_sources" =>
        /\ Returned =>
              \A p \in TreePorts(wf) :
                  last.pre.port[p].source_ref # NoRef
                      => /\ wf.port[p].source # NoPort
                         /\ wf.port[p].source.node \in TreeNodes(wf)
        /\ (\E p \in TreePorts(last.pre) : NamesNoNode(last.pre, p)) => ~Returned

(***************************************************************************)
(* C20: add_step(step) with can_exist false and an id already used by a    *)
(* step of the workflow raises an error and leaves the workflow's step     *)
(* list, its id-to-step lookup, the parents of the steps and every port    *)
(* binding unchanged.                                                      *)
(***************************************************************************)
C20_DuplicateIdRejected ==
    (/\ last.op = "add_step"
     /\ last.b = FALSE
     /\ \E n \in Range(last.pre.steps) : last.pre.id[n] = last.pre.id[last.a])
        => /\ ~Returned
           /\ wf.steps = last.pre.steps
           /\ wf.steps_dict = last.pre.steps_dict
           /\ wf.parent = last.pre.parent
           /\ wf.port = last.pre.port

\* the cache, or a child cache in it, holds the object o as a value
RECURSIVE Held(_, _)
Held(c, o) ==
    \E k \in DOMAIN c.dict :
        \/ c.dict[k] = Obj(o)
        \/ c.dict[k].kind = "cache" /\ Held(c.dict[k], o)

(***************************************************************************)
(* C11: across any sequence of set, del, pop, rename_key, clear and close  *)
(* on a ValueCache, every closable value that stops being held by the      *)
(* cache (replaced by a different value, removed, cleared, or the cache    *)
(* closed) has its close called exactly once, and a value the cache still  *)
(* holds has not been closed.  Per call: an object held before the call    *)
(* and not after it received one close(), every other object none.         *)
(***************************************************************************)
C11_ClosedExactlyOnce ==
    vlast.op # "none" =>
        \A o \in Objects :
            vc.closed[o] = vlast.pre.closed[o]
                + (IF Held(vlast.pre.cache, o) /\ ~Held(vc.cache, o) THEN 1 ELSE 0)

\* a write to the child cache of the key vlast.a was made
ChildWrite == vlast.op \in {"child_set", "child_del", "child_rename_key", "child_clear"}

(***************************************************************************)
(* C12: writes to cache.child("s") (set, del, rename_key, clear applied to *)
(* the child) never change the parent cache's own keys, values, ids or     *)
(* update counts: the parent has the keys it had, and the key of the child *)
(* that cache.child("s") makes, every other key has the value it had, and  *)
(* _id_infos and _last_id are as they were.                                *)
(***************************************************************************)
C12_ChildWritesLeaveParent ==
    ChildWrite =>
        LET pre == vlast.pre.cache
            ck == ChildKey(vlast.a)
        IN  /\ DOMAIN vc.cache.dict = DOMAIN pre.dict \cup {ck}
            /\ \A k \in DOMAIN pre.dict \ {ck} : vc.cache.dict[k] = pre.dict[k]
            /\ ck \in DOMAIN pre.dict => vc.cache.dict[ck].kind = pre.dict[ck].kind
            /\ vc.cache.id_infos = pre.id_infos
            /\ vc.cache.last_id = pre.last_id

\* a write changed the child of a parent that has entries with ids of its own
C12_Witness ==
    /\ ChildWrite
    /\ vc.exc = NoError
    /\ vlast.pre.cache.id_infos # EmptyDict
    /\ ChildKey(vlast.a) \in DOMAIN vlast.pre.cache.dict
    /\ vc.cache.dict[ChildKey(vlast.a)] # vlast.pre.cache.dict[ChildKey(vlast.a)]

\* the most recent step of the running or finished invocation with a cache, and
\* the entries of the context's cache before and after it
StepCached ==
    /\ run.ctx # "none"
    /\ run.invoked # <<>>
    /\ vlast.op = "invoke_step"
    /\ vlast.a = run.invoked[Len(run.invoked)]
LastCalled == run.called[Len(run.called)]
EntriesBefore == ContextCache(vlast.pre, run.ctx, wf.ws.id).cache.dict
EntriesAfter == ContextCache(vc, run.ctx, wf.ws.id).cache.dict

(***************************************************************************)
(* C14: an OpStep whose operation has can_cache true, invoked twice with   *)
(* the same value cache in the context, calls the operation body once: the *)
(* second invocation takes the value stored under the step's id and sets   *)
(* the step's outputs from it.  Per invocation of such a step: when the    *)
(* cache has no entry under the step's id the operation is called and its  *)
(* result is stored under the id; when it has one the operation is not     *)
(* called, the output is the stored value and the cache is unchanged.      *)
(***************************************************************************)
C14_CachedValueReused ==
    (/\ StepCached
     /\ wf.kind[vlast.a] = "OpStep"
     /\ wf.can_cache[vlast.a]
     /\ wf.exc = NoError)
        => LET key == wf.id[vlast.a]
               output == wf.port[NodePort(vlast.a, "out", RETURN_OUTPUT_NAME)].value
           IN  IF key \in DOMAIN EntriesBefore
               THEN /\ ~LastCalled
                    /\ Val(output) = EntriesBefore[key]
                    /\ EntriesAfter = EntriesBefore
               ELSE /\ LastCalled
                    /\ EntriesAfter[key] = Val(output)

\* the second invocation of a step found the value that the first one stored
C14_Witness ==
    /\ StepCached
    /\ run.count = 2
    /\ wf.kind[vlast.a] = "OpStep"
    /\ wf.can_cache[vlast.a]
    /\ wf.exc = NoError
    /\ wf.id[vlast.a] \in DOMAIN EntriesBefore
    /\ ~LastCalled

(***************************************************************************)
(* C13: when a WorkflowStep is invoked with a value cache in its context,  *)
(* every value cached by a step of the nested workflow is stored in        *)
(* cache.child(id of the WorkflowStep) and never under a key of the outer  *)
(* cache, so an inner step and an outer step with the same id never read   *)
(* or overwrite each other's cached value.  Per step of the nested         *)
(* workflow: the outer cache keeps its keys, their values, ids and update  *)
(* counts, and a value that the step caches is in the child.               *)
(***************************************************************************)
C13_NestedValuesInChild ==
    (StepCached /\ run.ws)
        => LET ck == ChildKey(wf.ws.id)
               key == wf.id[vlast.a]
               pre == vlast.pre.cache
           IN  /\ DOMAIN vc.cache.dict = DOMAIN pre.dict
               /\ \A k \in DOMAIN pre.dict \ {ck} : vc.cache.dict[k] = pre.dict[k]
               /\ vc.cache.id_infos = pre.id_infos
               /\ (LastCalled /\ wf.can_cache[vlast.a] /\ wf.exc = NoError)
                     => /\ ck \in DOMAIN vc.cache.dict
                        /\ key \in DOMAIN vc.cache.dict[ck].dict

\* the entries of the cache of the context of the invocation
SavedEntries == ContextCache(vc, run.ctx, wf.ws.id).cache.dict

(***************************************************************************)
(* C15: if the monitor is cancelled before step k of a workflow invocation *)
(* starts, step k and all later steps are not invoked, the invocation ends *)
(* with a Cancellation error, and the values cached by the steps before k  *)
(* remain in the value cache.                                              *)
(***************************************************************************)
C15_CancelStopsInvocation ==
    (run.canceled /\ run.cancel_at < Len(run.invoked) + Len(run.todo))
        => /\ Len(run.invoked) <= run.cancel_at
           /\ run.pc = "idle" => wf.exc = "Cancellation"
           /\ \A k \in DOMAIN run.saved :
                 k \in DOMAIN SavedEntries /\ SavedEntries[k] = run.saved[k]


(***************************************************************************)
(* C22: input validation rejects a nil value for an input declared         *)
(* required, accepts an int where data_type is float, rejects a value that *)
(* is not a member of a declared value_set, and rejects a value outside    *)
(* the closed interval of a declared value_range; a value that satisfies   *)
(* every declared constraint is accepted.                                  *)
(* The claim as stated: a value_set is declared when the properties have   *)
(* the key.  The code: an empty value_set rejects nothing.                 *)
(***************************************************************************)
\* validate_input_values was called with the one value last.b[1][2] for the input x
ValidatedOne ==
    last.op = "validate_input_values" /\ Len(last.b) = 1 /\ last.b[1][1] = X

Rejected == result.exc # NoError

RequiredDeclared(p) == "required" \in p.keys /\ p.required

TypeSatisfied(p, v) ==
    "data_type" \in p.keys =>
        IsInstance(v, p.data_type) \/ (p.data_type = "float" /\ IsInstance(v, "int"))

InValueSet(p, v) == \E member \in p.value_set : PyEq(v, member)

RangeSatisfied(p, v) ==
    "value_range" \in p.keys =>
        IsNumber(v) /\ p.value_range[1] <= v.v /\ v.v <= p.value_range[2]

\* the outcomes of the claim, for the reading SetSatisfied of "member of a declared value_set"
Validation(p, v, set_satisfied) ==
    /\ v = PyNone /\ RequiredDeclared(p) => Rejected
    /\ v = PyNone /\ ~RequiredDeclared(p) => ~Rejected
    /\ v # PyNone /\ ~set_satisfied => Rejected
    /\ v # PyNone /\ ~RangeSatisfied(p, v) => Rejected
    /\ v # PyNone /\ ~TypeSatisfied(p, v) => Rejected
    /\ v # PyNone /\ TypeSatisfied(p, v) /\ set_satisfied /\ RangeSatisfied(p, v) => ~Rejected

C23_AddOpExisting ==
    last.op = "add_op" /\ ObjectToQualifiedName(last.a) \in DOMAIN last.pre.op_registrations =>
        /\ registry.op_registrations = last.pre.op_registrations
        /\ IF last.b THEN result.exc = "ValueError"
           ELSE /\ result.exc = NoError
                /\ result.val = last.pre.op_registrations[ObjectToQualifiedName(last.a)]

\* add_op of another callable with the qualified name of a registered one
C23_Witness ==
    /\ last.op = "add_op" /\ ~last.b
    /\ ObjectToQualifiedName(last.a) \in DOMAIN last.pre.op_registrations
    /\ last.pre.op_registrations[ObjectToQualifiedName(last.a)].operation # last.a


(***************************************************************************)
(* C21: Node.call applies defaults, then validates, then writes the input  *)
(* ports, then invokes: when validation of the input values fails, the     *)
(* error reaches the caller, no input port of the node has been written    *)
(* and no step has been invoked.                                           *)
(***************************************************************************)
\* the most recent call was given input values that fail validation after defaults
ValidationFailed ==
    /\ last.op = "call"
    /\ OpMetaInfoValidateInputValues(
           last.pre.input_properties,
           SetDefaultInputValues(last.pre.input_properties, last.b)) # NoError

C21_ValidationBeforeWrite ==
    ValidationFailed =>
        /\ result.exc = "ValueError"
        /\ \A p \in Range(InputPorts(wf, W)) : wf.port[p] = last.pre.port[p]
        /\ run.pc = "idle" /\ run.invoked = <<>>
        /\ \A p \in AllPorts : wf.port[p] = last.pre.port[p]

\* a value outside the value_set is refused after an earlier call has gone through
C21_Witness ==
    /\ ValidationFailed
    /\ X \in DOMAIN last.b /\ last.b[X] = "v2"
    /\ wf.port[NodePort(W, "in", X)].value = "v1"


\* update_source was called on a port whose reference names node_id and port_name both
Referred == last.pre.port[last.a].source_ref

NamesNodeAndPort ==
    /\ last.op = "update_source"
    /\ Referred # NoRef
    /\ Referred.node_id # NoneStr /\ Referred.port_name # NoneStr
    /\ ReferredNode(last.pre, last.a) # None

(***************************************************************************)
(* C24: when a source reference names both a node id and a port name and   *)
(* the node has both an input and an output of that name, the reference    *)
(* resolves to the output if the node is an inner step and to the input if *)
(* the node is a workflow.                                                 *)
(***************************************************************************)
C24_WorkflowInputsFirst ==
    NamesNodeAndPort =>
        LET node == ReferredNode(last.pre, last.a)
            name == Referred.port_name
            port == NodePort(node, IF last.pre.kind[node] = "Workflow" THEN "in" ELSE "out", name)
        IN  /\ name \in Range(last.pre.inputs[node])
            /\ name \in Range(last.pre.outputs[node])
            /\ port # last.a
            => Returned /\ wf.port[last.a].source = port

\* the chain of the dotted form: the node of the port, then its parent
Chain(s, n) == IF n \in Steps /\ s.parent[n] # None THEN <<n, s.parent[n]>> ELSE <<n>>

HasPortNamed(s, n, name) == name \in Range(s.inputs[n]) \cup Range(s.outputs[n])

\* update_source was called on a port whose reference names a port and no node
Dotted ==
    /\ last.op = "update_source"
    /\ Referred # NoRef
    /\ Referred.node_id = NoneStr

\* the positions in the chain of the nodes that have a port of the name referred to
Having == {i \in DOMAIN Chain(last.pre, last.a.node) :
              HasPortNamed(last.pre, Chain(last.pre, last.a.node)[i], Referred.port_name)}

Nearest == Chain(last.pre, last.a.node)[CHOOSE i \in Having : \A j \in Having : i <= j]

TreeIds(s) ==
    {s.id[n] : n \in TreeNodes(s)} \cup UNION {Range(s.workflow[n].steps) : n \in Range(s.steps)}

(***************************************************************************)
(* C26: a source reference with a node id resolves when that node is the   *)
(* root workflow, one of its steps, or a step of a workflow nested at any  *)
(* depth below it, and fails with an unknown-node error only when no node  *)
(* of the tree has that id.  Here: update_source on a port of the tree     *)
(* fails for want of the node exactly when no node of the tree has the id. *)
(***************************************************************************)
C26_FindsEveryDescendant ==
    /\ last.op = "update_source"
    /\ last.a.node \in TreeNodes(last.pre)
    /\ Referred # NoRef
    /\ Referred.node_id # NoneStr
    => ((wf.exc = "ValueError" /\ ReferredNode(last.pre, last.a) = None)
            <=> Referred.node_id \notin TreeIds(last.pre))

(***************************************************************************)
(* C27: for every port P that is the source of another port Q, the         *)
(* reference text that Q.to_json emits for P, parsed by from_json and      *)
(* resolved by update_source in the same workflow tree, binds Q to P       *)
(* again.                                                                  *)
(***************************************************************************)
C27_ReferenceTextRebinds ==
    /\ last.op = "reresolve"
    /\ last.pre.port[last.a].source # NoPort
    /\ last.pre.port[last.a].source.node \in TreeNodes(last.pre)
    /\ last.a.node \in TreeNodes(last.pre)
    => Returned /\ wf.port[last.a].source = last.pre.port[last.a].source


\* from_json was called with a reference text, as a string or as the source of a dict
DecodedText ==
    /\ last.op = "from_json"
    /\ last.b.is_str \/ last.b.keys = {"source"}

NodeIdTexts == {A, B, A \o <<Dot>> \o B}
PortNameTexts == {X, RETURN_OUTPUT_NAME}

(***************************************************************************)
(* C28: from_json fails for a JSON object that carries both source and     *)
(* value, and for a reference text that is empty or has nothing after its  *)
(* last dot; the texts "N.P", "N" and ".P" yield the unresolved references *)
(* (N, P), (N, nil) and (nil, P), and an object with only value yields a   *)
(* literal with no reference.                                              *)
(***************************************************************************)
C28_FromJsonForms ==
    last.op = "from_json" =>
        LET port == wf.port[last.a]
            text == last.b.source
            unresolved(node_id, port_name) ==
                /\ Returned
                /\ port.source_ref.node_id = node_id /\ port.source_ref.port_name = port_name
                /\ port.source = NoPort /\ port.value = UNDEFINED
        IN  /\ ~last.b.is_str /\ {"source", "value"} \subseteq last.b.keys => wf.exc = "ValueError"
            /\ DecodedText /\ (text = EmptyStr \/ text[Len(text)] = Dot) => wf.exc = "ValueError"
            /\ \A n \in NodeIdTexts, name \in PortNameTexts :
                /\ DecodedText /\ text = n \o <<Dot>> \o name => unresolved(n, name)
                /\ DecodedText /\ text = n /\ Dot \notin Range(n) => unresolved(n, NoneStr)
                /\ DecodedText /\ text = <<Dot>> \o name => unresolved(NoneStr, name)
            /\ ~last.b.is_str /\ last.b.keys = {"value"} =>
                /\ Returned
                /\ port.value = last.b.value
                /\ port.source_ref = NoRef /\ port.source = NoPort

\* a text with two dots was decoded on a port that was bound
C28_Witness ==
    /\ DecodedText /\ Returned
    /\ last.b.source = A \o <<Dot>> \o B \o <<Dot>> \o X
    /\ last.pre.port[last.a].source # NoPort


(***************************************************************************)
(* C29: to_json of a port with no source emits a value exactly when the    *)
(* port is an input port holding a literal; an output port holding a       *)
(* literal emits an empty object; every bound port emits its source        *)
(* reference and no value.                                                 *)
(***************************************************************************)
C29_ToJsonLiteralOfInputs ==
    last.op = "to_json" =>
        LET port == wf.port[last.a]
            json == result.val
        IN  /\ port.source = NoPort =>
                ("value" \in json.keys <=> last.a.side = "in" /\ port.value # UNDEFINED)
            /\ port.source = NoPort /\ last.a.side = "out" /\ port.value # UNDEFINED
                => json = EmptyJsonDict
            /\ port.source # NoPort =>
                /\ json.is_str \/ json.keys = {"source"}
                /\ json.source = PortStr(wf, port.source)


\* the nodes that n needs: the nodes of the sources of its inputs, and what they need
Needs(s, n) == Successors(s, n) \ {W}

\* the steps of the workflow that have the id
StepsWithId(s, step_id) == {n \in Range(s.steps) : s.id[n] = step_id}

(***************************************************************************)
(* C30: find_steps_to_compute(step_id) returns, without duplicates,        *)
(* exactly the given step and the steps it transitively requires through   *)
(* resolved input sources, ordered so that every step comes after all      *)
(* steps it requires and the given step is last; a step_id that names no   *)
(* step of the workflow raises an error.                                   *)
(***************************************************************************)
C30_StepsToCompute ==
    last.op = "find_steps_to_compute" =>
        IF StepsWithId(wf, last.a) = {} THEN result.exc = "ValueError"
        ELSE /\ result.exc = NoError
             /\ LET steps == result.val
                    step == steps[Len(steps)]
                IN  /\ Len(steps) >= 1
                    /\ step \in StepsWithId(wf, last.a)
                    /\ \A i, j \in DOMAIN steps : i # j => steps[i] # steps[j]
                    /\ Range(steps) = {step} \cup Needs(wf, step)
                    /\ \A i, j \in DOMAIN steps : steps[i] \in Needs(wf, steps[j]) => i < j

\* C30 in the states without a cycle in which the lookup has exactly the steps
C30_StepsToComputeAcyclic ==
    /\ Acyclic(wf)
    /\ \A n \in Range(wf.steps) : DictGet(wf.steps_dict, wf.id[n]) = n
    /\ \A i, j \in DOMAIN wf.steps : i # j => wf.id[wf.steps[i]] # wf.id[wf.steps[j]]
    => C30_StepsToCompute

\* the number of edges of the longest chain of input sources that leads from n to m,
\* -1 when there is none (the graph has no cycle)
RECURSIVE LongestChain(_, _, _)
LongestChain(s, n, m) ==
    IF n = m THEN 0
    ELSE LET via == {LongestChain(s, k, m) + 1 : k \in {k \in Nodes : Edge(s, n, k)}} \ {0}
         IN  IF via = {} THEN -1 ELSE CHOOSE d \in via : \A e \in via : e <= d

(***************************************************************************)
(* C31: a.max_distance_to(b) is 0 when b is a, the number of edges of the  *)
(* longest chain of input sources leading from a to b when such a chain    *)
(* exists, and -1 otherwise; a.requires(b) is true exactly when that       *)
(* distance is positive.                                                   *)
(***************************************************************************)
C31_MaxDistance ==
    last.op = "max_distance_to" =>
        /\ result.exc = NoError
        /\ result.val = LongestChain(wf, last.a, last.b)
        /\ Requires(wf, last.a, last.b) <=> LongestChain(wf, last.a, last.b) > 0

\* C31 for steps that have different ids
C31_MaxDistanceUniqueIds ==
    (\A n, m \in Nodes : n # m => wf.id[n] # wf.id[m]) => C31_MaxDistance

\* the cache holds key before the call
HeldBefore(key) == key \in DOMAIN vlast.pre.cache.dict

(***************************************************************************)
(* C32: after rename_key(old, new) with old different from new, old is no  *)
(* longer a key of the cache, new holds the value old held, the child      *)
(* cache that was stored under old is the child cache returned by          *)
(* child(new), and no value has been closed by the rename.                 *)
(***************************************************************************)
C32_RenameKey ==
    vlast.op = "rename_key" /\ vlast.a # vlast.b /\ vc.exc = NoError =>
        /\ vlast.a \notin DOMAIN vc.cache.dict
        /\ vlast.b \in DOMAIN vc.cache.dict
        /\ CacheGet(vc.cache, vlast.b) = CacheGet(vlast.pre.cache, vlast.a)
        /\ HeldBefore(ChildKey(vlast.a)) =>
               CacheGet(CacheChild(vc, vlast.b).cache, ChildKey(vlast.b))
                   = CacheGet(vlast.pre.cache, ChildKey(vlast.a))
        /\ vc.closed = vlast.pre.closed

\* C32 when neither key is the key of the other key's child cache
C32_RenameKeyNotToChildKey ==
    vlast.op = "rename_key" =>
        (vlast.b # ChildKey(vlast.a) /\ vlast.a # ChildKey(vlast.b) => C32_RenameKey)

\* how many entries of the cache c and of the caches nested in it hold the object o
RECURSIVE Holds(_, _)
Holds(c, o) ==
    LET RECURSIVE Sum(_)
        Sum(ks) == IF ks = {} THEN 0
                   ELSE LET k == CHOOSE x \in ks : TRUE
                        IN  Sum(ks \ {k}) + (IF c.dict[k].kind = "cache" THEN Holds(c.dict[k], o)
                                             ELSE IF c.dict[k] = Obj(o) THEN 1 ELSE 0)
    IN  Sum(DOMAIN c.dict)

C33_WitnessLaterAccess ==
    /\ vlast.op = "child"
    /\ HeldBefore(ChildKey(vlast.a))
    /\ vlast.pre.cache.dict[ChildKey(vlast.a)].kind = "cache"
    /\ vlast.pre.cache.dict[ChildKey(vlast.a)].dict # EmptyDict

(***************************************************************************)
(* C34: an OpStep whose operation has can_cache false calls the operation  *)
(* on every invocation and leaves the context's value cache unchanged: it  *)
(* neither reads an entry under its id nor stores one.  Its output is what *)
(* the operation returned.                                                 *)
(***************************************************************************)
C34_NoCacheWithoutCanCache ==
    (/\ StepCached
     /\ wf.kind[vlast.a] = "OpStep"
     /\ ~wf.can_cache[vlast.a])
        => /\ LastCalled
           /\ vc = vlast.pre
           /\ wf.exc = NoError =>
                  wf.port[NodePort(vlast.a, "out", RETURN_OUTPUT_NAME)].value = vlast.b

\* a step without can_cache was invoked when the cache had another value under its id
C34_Witness ==
    /\ StepCached
    /\ wf.kind[vlast.a] = "OpStep"
    /\ ~wf.can_cache[vlast.a]
    /\ wf.exc = NoError
    /\ wf.id[vlast.a] \in DOMAIN EntriesBefore
    /\ EntriesBefore[wf.id[vlast.a]] # Val(vlast.b)
    /\ LastCalled

\* the id-to-step lookup of s has exactly the steps of s, each under its id
LookupExact(s) ==
    /\ \A n \in Range(s.steps) :
           /\ DictGet(s.steps_dict, s.id[n]) = n
           /\ FindNode(s, W, s.id[n]) = n
    /\ \A k \in DOMAIN s.steps_dict :
           /\ s.steps_dict[k] \in Range(s.steps)
           /\ s.id[s.steps_dict[k]] = k

(***************************************************************************)
(* C35: in every state reachable by add_step, remove_step and set_id, the  *)
(* workflow's id-to-step lookup contains exactly the steps of its step     *)
(* list, each stored under its current id, so find_node(s.id) returns s    *)
(* for every step s in the list.                                           *)
(***************************************************************************)
C35_LookupHasExactlyTheSteps == LookupExact(wf)

\* a call keeps C35 unless it is a set_id of a step to the id of another step
C35_LookupKeptUnlessDuplicateId ==
    (/\ last.op \in {"add_step", "remove_step", "set_id"}
     /\ LookupExact(last.pre)
     /\ ~(/\ last.op = "set_id"
          /\ \E n \in Range(last.pre.steps) : n # last.a /\ last.pre.id[n] = last.b))
        => LookupExact(wf)

(***************************************************************************)
(* C36: in every state reachable by add_step and remove_step, a step's     *)
(* parent_node is workflow W exactly when the step is in W's step list: a  *)
(* step that was removed, or replaced by add_step with can_exist, has no   *)
(* parent.                                                                 *)
(***************************************************************************)
C36_ParentIffInStepList ==
    \A n \in Steps : wf.parent[n] = W <=> n \in Range(wf.steps)

\* a call keeps C36 unless it is an add_step that replaces a step
C36_ParentKeptUnlessReplaced ==
    (/\ last.op \in {"add_step", "remove_step"}
     /\ \A n \in Steps : last.pre.parent[n] = W <=> n \in Range(last.pre.steps)
     /\ ~(last.op = "add_step" /\ wf.ret \in Steps \ {last.a}))
        => C36_ParentIffInStepList

\* the keys of the cache c that have an id: stored with set, or renamed from such a key
KeysWithId(c) == DOMAIN c.id_infos

\* every id names one key, and that key's value
IdsNameTheirKeys(c) ==
    /\ \A k1, k2 \in KeysWithId(c) : k1 # k2 => GetId(c, k1) # GetId(c, k2)
    /\ \A k \in KeysWithId(c) :
           /\ GetKey(c, GetId(c, k)) = k
           /\ k \in DOMAIN c.dict
           /\ GetValueById(c, GetId(c, k)) = CacheGet(c, k)

(***************************************************************************)
(* C37: in every state reachable by set, del, rename_key, child and clear  *)
(* on a ValueCache, no two keys have the same id, get_key(get_id(k)) is k  *)
(* and get_value_by_id(get_id(k)) is the value stored under k for every    *)
(* key k that was stored with set.                                         *)
(***************************************************************************)
C37_IdsNameTheirKeys == IdsNameTheirKeys(vc.cache)

\* a call keeps C37 unless it is a rename_key to the key of the old key's child cache,
\* or of a key whose child key has an id
C37_KeptUnlessRenameWithChildKey ==
    (/\ vlast.op # "none"
     /\ IdsNameTheirKeys(vlast.pre.cache)
     /\ ~(/\ vlast.op = "rename_key"
          /\ \/ vlast.b = ChildKey(vlast.a)
             \/ ChildKey(vlast.a) \in KeysWithId(vlast.pre.cache)))
        => C37_IdsNameTheirKeys

\* the source reference of every bound port of s names its source port
RefsNameSources(s) ==
    \A p \in AllPorts :
        s.port[p].source # NoPort =>
            s.port[p].source_ref = SourceRef(s.id[s.port[p].source.node], s.port[p].source.name)

(***************************************************************************)
(* C38: in every state reachable by set_source, update_sources, add_step   *)
(* and set_id, the symbolic source reference of every bound port equals    *)
(* the pair (current id of the node owning its source port, name of its    *)
(* source port).                                                           *)
(***************************************************************************)
C38_RefsNameSources == RefsNameSources(wf)

\* a call that returns keeps C38 unless it is a set_id of a node that a port outside
\* of the node's tree is bound to
C38_KeptUnlessRenamedOutOfReach ==
    (/\ last.op \in {"set_source", "update_sources", "add_step", "set_id"}
     /\ Returned
     /\ RefsNameSources(last.pre)
     /\ ~(/\ last.op = "set_id"
          /\ \E p \in AllPorts :
                /\ last.pre.port[p].source # NoPort
                /\ last.pre.port[p].source.node = last.a
                /\ p.node # last.a
                /\ ~(RootNode(last.pre, last.a) = W /\ p.node \in TreeNodes(last.pre))))
        => C38_RefsNameSources

\* add_step(new, can_exist=true) replaced a step of the workflow by another step and
\* raised while it resolved the references again
ReplacementRaised ==
    /\ last.op = "add_step"
    /\ last.b = TRUE
    /\ wf.exc = "ValueError"
    /\ LET old_step == DictGet(last.pre.steps_dict, last.pre.id[last.a])
       IN  old_step # None /\ old_step # last.a /\ old_step \in Range(last.pre.steps)

(***************************************************************************)
(* C39: when add_step(new, can_exist=true) raises because a reference of   *)
(* the workflow cannot be resolved against the new step, the workflow's    *)
(* step list, its id-to-step lookup and every port binding are as they     *)
(* were before the call.                                                   *)
(***************************************************************************)
C39_FailedReplacementChangesNothing ==
    ReplacementRaised =>
        /\ wf.steps = last.pre.steps
        /\ wf.steps_dict = last.pre.steps_dict
        /\ \A p \in AllPorts : wf.port[p].source = last.pre.port[p].source

\* the call op was made and its recursion did not come to an end
Endless(op) == last.op = op /\ result.exc = "RecursionError"

(***************************************************************************)
(* C40: for every workflow reachable through set_source, add_step and      *)
(* update_sources, reading a port's value or has_value, computing          *)
(* sorted_steps and computing find_steps_to_compute all terminate.         *)
(***************************************************************************)
C40_ReadsTerminate ==
    /\ ~Endless("value")
    /\ ~Endless("has_value")
    /\ ~Endless("sorted_steps")
    /\ ~Endless("find_steps_to_compute")

\* the four reads one by one
C40_ValueTerminates == ~Endless("value")
C40_HasValueTerminates == ~Endless("has_value")
C40_SortedStepsTerminates == ~Endless("sorted_steps")
C40_FindStepsToComputeTerminates == ~Endless("find_steps_to_compute")

\* C40 for the workflows without a cycle of ports or of nodes
C40_ReadsTerminateAcyclic ==
    (/\ Acyclic(wf)
     /\ \A p \in AllPorts : HasValue(wf, p, 0) # "RecursionError")
        => /\ ~Endless("sorted_steps")
           /\ ~Endless("find_steps_to_compute")

====
